---- MODULE Spec2Model ----
(***************************************************************************)
(* State-machine model of the legislative-bill pipeline engine:            *)
(*   - the batched filter loop (scripts/run_filter_pass.py) and            *)
(*     AIFilterPass.filter_batch (src/ai_filter_pass.py),                  *)
(*   - the analysis loop (scripts/run_analysis_pass.py,                    *)
(*     scripts/run_direct_analysis.py) and AIAnalysisPass.analyze_data,    *)
(*   - the storage providers (local file, blob, relational),               *)
(*   - the hook manager (src/hook_system.py),                              *)
(*   - the format normalizer (src/format_normalizer.py).                   *)
(* Each subsystem has its own specification; the variables of the other    *)
(* subsystems stay at their idle values.                                   *)
(***************************************************************************)
EXTENDS Integers, Sequences, FiniteSets, TLC

(***************************************************************************)
(* Bounds of the model.                                                    *)
(***************************************************************************)
MaxBills == 3
MaxItems == 2
MaxBillIds == 1
MaxRunBills == 2
MaxHooks == 2

(***************************************************************************)
(* Program constants.                                                      *)
(***************************************************************************)
DEFAULT_MAX_TOKENS == 200
BATCH_MAX_TOKENS == 8000

VARIABLES
    \* ---- filter run (run_filter_pass.main) ----
    bills,              \* list of input bill records
    batch_size,         \* filter_config['batch_size']
    batch_num,          \* loop index of `for batch_num in range(num_batches)`
    all_results,        \* concatenated batch results
    relevant_bills,     \* partition computed after the loop
    not_relevant_bills,
    saved_filter,       \* what save_filtered_results received ("none" before)
    fpc,                \* position of main(): "loop", "organize", "done"
    events,             \* trace of LLM calls and sleeps of the loop
    flog,               \* per batch: what the classifier answered and what happened
    \* ---- AIFilterPass instance ----
    max_tokens,         \* self.max_tokens
    last_call,          \* the last filter_batch / filter_data call and its outcome
    \* ---- AIAnalysisPass instance and the storage provider cache it uses ----
    acfg,               \* legiscan_api_key set, storage_provider set, api_delay > 0
    bill_cache,         \* storage_provider bill cache: bill_id -> payload or Absent
    text_cache,         \* storage_provider text cache: doc_id -> text or Absent
    last_fetch_was_cached,  \* self._last_fetch_was_cached ("unset" before the first fetch)
    stored_ids,         \* bill ids whose upstream record analyze_data has put in the cache
    last_analysis,      \* the last analyze_data call: input, environment, outcome
    \* ---- analysis run (run_analysis_pass.main / run_direct_analysis.main) ----
    bills_to_process,   \* the bills selected for processing
    aidx,               \* number of bills the loop has gone through
    relevant_results,
    not_relevant_results,
    analysis_out,       \* what main() saved, and the summary it computed
    apc,                \* position of main(): "loop", "done", "crashed"
    \* ---- storage provider (StorageProviderFactory, LocalFileStorage) ----
    provider,           \* what StorageProviderFactory.create last gave: backend, status
    raw_files,          \* data/raw: file stem -> file content or NoFile
    bill_files,         \* data/cache/legiscan_cache/bill_{id}.json
    text_files,         \* data/cache/legiscan_cache/bill_text_{doc}.txt
    analyzed_files,     \* data/analyzed: <<prefix, bucket>> -> file content or NoFile
    filtered_files,     \* data/filtered: file name -> file content or NoFile
    saved,              \* per store and key, the value the caller last saved
    last_op,            \* the last storage operation: op, key, status, returned value
    \* ---- HookManager (src/hook_system.py) ----
    hooks,              \* self.hooks: timing -> the hooks registered, in order
    hook_cache,         \* the files of cache_dir: cache key -> file content or NoFile
    last_exec,          \* the last execute_hooks call and what it returned
    \* ---- format normalizer (src/format_normalizer.py) ----
    norm_doc,           \* the parsed JSON document handed to the normalizer
    norm_out,           \* the last normalizer call and what it returned or raised
    \* ---- LLMProviderFactory (src/llm_provider.py) ----
    llm_out,            \* the last create_from_env call: config, environment, provider
    \* ---- DatabaseStorage (src/database_storage.py) ----
    db_cfg,             \* self.enable_file_fallback
    db,                 \* the committed content of the tables
    db_borrowed,        \* connections taken from the pool and not yet put back
    db_last             \* the last DatabaseStorage operation and its outcome

filterVars == <<bills, batch_size, batch_num, all_results, relevant_bills,
                not_relevant_bills, saved_filter, fpc, events, flog>>
passVars == <<max_tokens, last_call>>
analyzerVars == <<acfg, bill_cache, text_cache, last_fetch_was_cached, stored_ids,
                  last_analysis>>
runVars == <<bills_to_process, aidx, relevant_results, not_relevant_results, analysis_out,
             apc>>
storageVars == <<provider, raw_files, bill_files, text_files, analyzed_files,
                 filtered_files, saved, last_op>>
hookVars == <<hooks, hook_cache, last_exec>>
normVars == <<norm_doc, norm_out>>
llmVars == <<llm_out>>
dbVars == <<db_cfg, db, db_borrowed, db_last>>
vars == <<filterVars, passVars, analyzerVars, runVars, storageVars, hookVars, normVars,
          llmVars, dbVars>>

(***************************************************************************)
(* JSON values the classifier can answer with.  None is JSON null / Python *)
(* None.  A result item is a dict {bill_identifier, relevant, reason} or   *)
(* something that is not a dict at all.                                    *)
(***************************************************************************)
None == "None"
UnknownBill == 0
Reasons == {"matches domain X", None}

DictItems(ids) ==
    [dict : {TRUE}, bill_identifier : ids, relevant : BOOLEAN, reason : Reasons]
NonDictItem ==
    [dict |-> FALSE, bill_identifier |-> UnknownBill, relevant |-> FALSE, reason |-> None]
Items(ids) == DictItems(ids) \cup {NonDictItem}

Min(a, b) == IF a < b THEN a ELSE b

SeqsUpTo(S, n) == UNION {[1..k -> S] : k \in 0..n}

\* the value under the `results` key
ResultsValues(ids, n) ==
    [k : {"list"}, items : SeqsUpTo(Items(ids), n)]
      \cup [k : {"str", "dict", "null", "num"}, items : {<<>>}]
NoResults == [k |-> "null", items |-> <<>>]

\* the parsed top-level JSON value; `has` says whether 'results' in value is true
\* (a key of a dict, an element of a list, a substring of a string)
JsonValues(ids, n) ==
    [k : {"dict"}, has : {TRUE}, res : ResultsValues(ids, n)]
      \cup [k : {"dict", "list", "str"}, has : {FALSE}, res : {NoResults}]
      \cup [k : {"list", "str"}, has : {TRUE}, res : {NoResults}]
      \cup [k : {"num", "null"}, has : {FALSE}, res : {NoResults}]
NoJson == [k |-> "null", has |-> FALSE, res |-> NoResults]

\* what provider.chat_completion + json.loads can produce for one call
Responses(ids, n) ==
    [type : {"provider_error", "unparseable"}, val : {NoJson}]
      \cup [type : {"json"}, val : JsonValues(ids, n)]

(***************************************************************************)
(* AIFilterPass._call_ai: raises when the provider raises or when the      *)
(* cleaned content is not JSON, else returns the parsed value.             *)
(***************************************************************************)
CallAI(resp) ==
    IF resp.type = "provider_error" THEN [raised |-> TRUE, err |-> "ProviderError", value |-> NoJson]
    ELSE IF resp.type = "unparseable" THEN [raised |-> TRUE, err |-> "JSONDecodeError", value |-> NoJson]
    ELSE [raised |-> FALSE, err |-> "", value |-> resp.val]

\* variant: a missing or non-array `results` is coerced to "no results"
ValidateResults_Coerce(v) ==
    IF v.k \in {"num", "null"} THEN "TypeError"
    ELSE IF v.k # "dict" /\ v.has THEN "TypeError"
    ELSE ""

(***************************************************************************)
(* The validation of filter_batch (lines 206-216) on a parsed value.       *)
(***************************************************************************)
ValidateResults(v) ==
    IF v.k \in {"num", "null"} THEN "TypeError"           \* 'results' not in 5
    ELSE IF ~v.has THEN "ValueError"                      \* missing 'results'
    ELSE IF v.k # "dict" THEN "TypeError"                 \* result['results'] on list/str
    ELSE IF v.res.k # "list" THEN "ValueError"            \* 'results' must be an array
    ELSE ""

(***************************************************************************)
(* AIFilterPass.filter_batch(self, file_content): max_tokens is raised to  *)
(* 8000 before the call and restored after the call returned.              *)
(***************************************************************************)
FilterBatch(mt, resp) ==
    LET ai == CallAI(resp) IN
    IF ai.raised
    THEN [raised |-> TRUE, err |-> ai.err, value |-> NoJson, max_tokens |-> BATCH_MAX_TOKENS]
    ELSE LET e == ValidateResults(ai.value) IN
         IF e # ""
         THEN [raised |-> TRUE, err |-> e, value |-> NoJson, max_tokens |-> mt]
         ELSE [raised |-> FALSE, err |-> "", value |-> ai.value, max_tokens |-> mt]

(***************************************************************************)
(* AIFilterPass.filter_data(self, data_item), lines 152-175: one LLM call   *)
(* with the current self.max_tokens; every exception is caught and turned  *)
(* into (False, "Error: ...").  `err` is the exception that was caught,     *)
(* max_tokens the budget the call was made with.                           *)
(***************************************************************************)
FilterData(mt, resp) ==
    LET ai == CallAI(resp) IN
    IF ai.raised
    THEN [raised |-> FALSE, err |-> ai.err, value |-> NoJson, max_tokens |-> mt]
    ELSE IF ai.value.k # "dict"                            \* result.get on a non-dict
         THEN [raised |-> FALSE, err |-> "AttributeError", value |-> NoJson, max_tokens |-> mt]
         ELSE [raised |-> FALSE, err |-> "", value |-> ai.value, max_tokens |-> mt]

(***************************************************************************)
(* AIAnalysisPass (src/ai_analysis_pass.py).                               *)
(* Bill ids are 1..MaxBillIds, NoBillId is a missing bill id; the latest   *)
(* text document of bill b has doc_id b.                                   *)
(* A bill payload is what getBill delivers under `bill`: JSON null (no     *)
(* `bill` key), an empty object, a bill record without texts, a bill       *)
(* record with a text document.                                            *)
(***************************************************************************)
BillIds == 1..MaxBillIds
NoBillId == 0
Absent == "absent"
BillPayloads == {"null", "empty", "bill", "bill_with_texts"}

\* Python truthiness of a cached or fetched payload (None and {} are falsy)
Truthy(p) == p \in {"bill", "bill_with_texts"}

\* `if cached_data:` (line 241): a cached payload counts only when truthy
CacheHit_Never(cached) == FALSE
CacheHit(cached) == Truthy(cached)

\* what the environment does during one analyze_data call
GetBillOutcomes == {"network_error", "status_error"} \cup BillPayloads
GetTextOutcomes == {"network_error", "status_error", "ok_no_doc", "ok_unextractable", "ok_text"}
\* the classifier: provider error, not JSON, JSON that is no object, or an
\* object with is_relevant true / false / missing; special_flags may be null
AiOutcomes == {"provider_error", "unparseable", "non_dict", "true", "false", "missing"}
NoEnv ==
    [cache_read |-> "ok", get_bill |-> "null", save_bill |-> "ok", text_read |-> "ok",
     get_text |-> "ok_text", save_text |-> "ok", ai |-> "true", flags_null |-> FALSE]
AiFlags ==
    {<<a, FALSE>> : a \in AiOutcomes} \cup {<<a, TRUE>> : a \in {"true", "false", "missing"}}
\* One environment per distinguishable behaviour: a component that no step
\* can consult, given the earlier ones, is left at its value in NoEnv.
Envs ==
    {[NoEnv EXCEPT !.cache_read = "raise"]}
    \cup {[NoEnv EXCEPT !.get_bill = g, !.ai = af[1], !.flags_null = af[2]] :
            g \in {"network_error", "status_error"}, af \in AiFlags}
    \cup {[NoEnv EXCEPT !.get_bill = g, !.save_bill = sb, !.ai = af[1],
                        !.flags_null = af[2]] :
            g \in {"null", "empty", "bill"}, sb \in {"ok", "raise"}, af \in AiFlags}
    \cup {[NoEnv EXCEPT !.get_bill = "bill_with_texts", !.save_bill = sb,
                        !.text_read = "raise"] : sb \in {"ok", "raise"}}
    \cup {[NoEnv EXCEPT !.get_bill = "bill_with_texts", !.save_bill = sb, !.get_text = gt,
                        !.ai = af[1], !.flags_null = af[2]] :
            sb \in {"ok", "raise"}, gt \in GetTextOutcomes \ {"ok_text"}, af \in AiFlags}
    \cup {[NoEnv EXCEPT !.get_bill = "bill_with_texts", !.save_bill = sb, !.save_text = st,
                        !.ai = af[1], !.flags_null = af[2]] :
            sb \in {"ok", "raise"}, st \in {"ok", "raise"}, af \in AiFlags}
\* analyze_data itself never looks at special_flags
CallEnvs == {e \in Envs : ~e.flags_null}
\* the analyzer of a run has no storage provider: no cache is read or written
RunEnvs ==
    {e \in Envs : /\ e.cache_read = NoEnv.cache_read /\ e.save_bill = NoEnv.save_bill
                  /\ e.text_read = NoEnv.text_read /\ e.save_text = NoEnv.save_text}

(***************************************************************************)
(* _fetch_bill_from_legiscan(bill_id), lines 223-285.                      *)
(* Returns the payload (None as "null"), or raises when the cache read     *)
(* raises (line 240 is outside the try).                                   *)
(***************************************************************************)
FetchBill(cfg, cache, lfc, bill_id, env) ==
    IF ~cfg.api_key
    THEN [raised |-> FALSE, data |-> "null", cache |-> cache, lfc |-> lfc,
          calls |-> 0, delay |-> FALSE, stored |-> FALSE]
    ELSE IF cfg.storage /\ env.cache_read = "raise"
    THEN [raised |-> TRUE, data |-> "null", cache |-> cache, lfc |-> lfc,
          calls |-> 0, delay |-> FALSE, stored |-> FALSE]
    ELSE IF cfg.storage /\ CacheHit(cache[bill_id])
    THEN [raised |-> FALSE, data |-> cache[bill_id], cache |-> cache, lfc |-> "true",
          calls |-> 0, delay |-> FALSE, stored |-> FALSE]
    ELSE IF env.get_bill \in {"network_error", "status_error"}
    THEN [raised |-> FALSE, data |-> "null", cache |-> cache, lfc |-> "false",
          calls |-> 1, delay |-> FALSE, stored |-> FALSE]
    ELSE LET saves == cfg.storage /\ env.save_bill = "ok" IN
         [raised |-> FALSE, data |-> env.get_bill,
          cache |-> IF saves THEN [cache EXCEPT ![bill_id] = env.get_bill] ELSE cache,
          lfc |-> "false", calls |-> 1, delay |-> cfg.api_delay, stored |-> saves]

(***************************************************************************)
(* _fetch_bill_text_from_legiscan(bill_id, doc_id, mime), lines 457-533.   *)
(***************************************************************************)
FetchBillText(cfg, tcache, doc_id, env) ==
    IF ~cfg.api_key
    THEN [raised |-> FALSE, text |-> "null", tcache |-> tcache, calls |-> 0, delay |-> FALSE]
    ELSE IF cfg.storage /\ env.text_read = "raise"
    THEN [raised |-> TRUE, text |-> "null", tcache |-> tcache, calls |-> 0, delay |-> FALSE]
    ELSE IF cfg.storage /\ tcache[doc_id] # Absent /\ tcache[doc_id] # ""
    THEN [raised |-> FALSE, text |-> tcache[doc_id], tcache |-> tcache, calls |-> 0,
          delay |-> FALSE]
    ELSE IF env.get_text \in {"network_error", "status_error"}
    THEN [raised |-> FALSE, text |-> "null", tcache |-> tcache, calls |-> 1, delay |-> FALSE]
    ELSE IF env.get_text \in {"ok_no_doc", "ok_unextractable"}
    THEN [raised |-> FALSE, text |-> "null", tcache |-> tcache, calls |-> 1,
          delay |-> cfg.api_delay]
    ELSE [raised |-> FALSE, text |-> "text",
          tcache |-> IF cfg.storage /\ env.save_text = "ok"
                     THEN [tcache EXCEPT ![doc_id] = "text"] ELSE tcache,
          calls |-> 1, delay |-> cfg.api_delay]

(***************************************************************************)
(* _extract_bill_text(bill_data), lines 535-602: the metadata of the bill  *)
(* record, then the document text or the "[Full text unavailable ...]"     *)
(* placeholder when the record has a text document.                        *)
(***************************************************************************)
ExtractBillText(cfg, tcache, bill_id, bill_data, env) ==
    IF bill_data # "bill_with_texts"
    THEN [raised |-> FALSE, text |-> "meta", tcache |-> tcache, calls |-> 0, delay |-> FALSE]
    ELSE LET ft == FetchBillText(cfg, tcache, bill_id, env) IN
         [raised |-> ft.raised,
          text |-> IF ft.text = "text" THEN "meta+text" ELSE "meta+unavailable",
          tcache |-> ft.tcache, calls |-> ft.calls, delay |-> ft.delay]

(***************************************************************************)
(* analyze_data(data_item, bill_id), lines 604-708.                        *)
(* A result is the returned dictionary: kind "analysis" is the classifier's*)
(* object with timing (and full_bill_text when truthy) added, kind "error" *)
(* is {error, full_bill_text, timing}.  is_relevant is "true", "false" or  *)
(* "absent" (no such key); full_bill_text is "absent" (no such key),       *)
(* "null", or the text that was built.                                     *)
(***************************************************************************)
NoResult ==
    [kind |-> "none", error |-> "", is_relevant |-> "absent", full_bill_text |-> "absent",
     has_timing |-> FALSE, cache_hit |-> FALSE, flags_null |-> FALSE]

\* lines 701 and 708
ErrorResult(err, fbt, hit) ==
    [kind |-> "error", error |-> err, is_relevant |-> "absent", full_bill_text |-> fbt,
     has_timing |-> TRUE, cache_hit |-> hit, flags_null |-> FALSE]

\* lines 678-708: the classifier call and what is made of its answer
Classify(fbt, hit, env) ==
    IF env.ai = "unparseable"
    THEN ErrorResult("JSON parsing failed", fbt, hit)
    ELSE IF env.ai \in {"provider_error", "non_dict"}
    THEN ErrorResult("str(e)", fbt, hit)
    ELSE [kind |-> "analysis", error |-> "",
          is_relevant |-> IF env.ai = "missing" THEN "absent" ELSE env.ai,
          full_bill_text |-> IF fbt = "null" THEN "absent" ELSE fbt,
          has_timing |-> TRUE, cache_hit |-> hit, flags_null |-> env.flags_null]

AnalyzeData(cfg, cache, tcache, lfc, bill_id, env) ==
    IF bill_id = NoBillId \/ ~cfg.api_key
    THEN [raised |-> FALSE, result |-> Classify("null", FALSE, env), cache |-> cache,
          tcache |-> tcache, lfc |-> lfc, bill_calls |-> 0, text_calls |-> 0,
          bill_delay |-> FALSE, text_delay |-> FALSE, stored |-> FALSE,
          ai_called |-> TRUE, enrich |-> "skipped"]
    ELSE
    LET fb == FetchBill(cfg, cache, lfc, bill_id, env) IN
    IF fb.raised
    THEN [raised |-> TRUE, result |-> NoResult, cache |-> fb.cache, tcache |-> tcache,
          lfc |-> fb.lfc, bill_calls |-> fb.calls, text_calls |-> 0,
          bill_delay |-> fb.delay, text_delay |-> FALSE, stored |-> fb.stored,
          ai_called |-> FALSE, enrich |-> "bill_raised"]
    ELSE IF ~Truthy(fb.data)
    THEN [raised |-> FALSE, result |-> Classify("null", FALSE, env), cache |-> fb.cache,
          tcache |-> tcache, lfc |-> fb.lfc, bill_calls |-> fb.calls, text_calls |-> 0,
          bill_delay |-> fb.delay, text_delay |-> FALSE, stored |-> fb.stored,
          ai_called |-> TRUE, enrich |-> "no_bill"]
    ELSE
    LET ex == ExtractBillText(cfg, tcache, bill_id, fb.data, env) IN
    IF ex.raised
    THEN [raised |-> TRUE, result |-> NoResult, cache |-> fb.cache, tcache |-> ex.tcache,
          lfc |-> fb.lfc, bill_calls |-> fb.calls, text_calls |-> ex.calls,
          bill_delay |-> fb.delay, text_delay |-> ex.delay, stored |-> fb.stored,
          ai_called |-> FALSE, enrich |-> "text_raised"]
    ELSE [raised |-> FALSE,
          result |-> Classify(ex.text, cfg.storage /\ fb.lfc = "true", env),
          cache |-> fb.cache, tcache |-> ex.tcache, lfc |-> fb.lfc,
          bill_calls |-> fb.calls, text_calls |-> ex.calls,
          bill_delay |-> fb.delay, text_delay |-> ex.delay, stored |-> fb.stored,
          ai_called |-> TRUE,
          enrich |-> IF ex.text = "meta+unavailable" THEN "no_text" ELSE "ok"]

\* what is kept of a call: the input, what the cache held for it before the
\* call, what the environment did where it decides the claims, the outcome
CallRecord(bill_id, was_stored, was_cached, out) ==
    [op |-> "analyze_data", bill_id |-> bill_id, was_stored |-> was_stored,
     was_cached |-> was_cached,
     raised |-> out.raised, result |-> out.result,
     bill_calls |-> out.bill_calls, text_calls |-> out.text_calls,
     bill_delay |-> out.bill_delay, text_delay |-> out.text_delay,
     stored |-> out.stored, ai_called |-> out.ai_called, enrich |-> out.enrich]
NoAnalysis ==
    [op |-> "none", bill_id |-> NoBillId, was_stored |-> FALSE, was_cached |-> Absent,
     raised |-> FALSE, result |-> NoResult, bill_calls |-> 0,
     text_calls |-> 0, bill_delay |-> FALSE, text_delay |-> FALSE, stored |-> FALSE,
     ai_called |-> FALSE, enrich |-> "skipped"]

(***************************************************************************)
(* Python values as the storage layer sees them.  A value is a type tag t, *)
(* an atom text a and a sequence of items: the items of a list or tuple,   *)
(* or the key/value items of a dict ("item": str key, "int_item": int key).*)
(***************************************************************************)
Atom(t, a) == [t |-> t, a |-> a, items |-> <<>>]
Coll(t, items) == [t |-> t, a |-> "", items |-> items]
Item(k, v) == [t |-> "item", a |-> k, items |-> <<v>>]
PyNone == Atom("null", "")
\* a str whose characters are given apart
PyStr == Atom("str", "")
PyList(items) == Coll("list", items)
PyDict(items) == Coll("dict", items)
PyTuple(items) == Coll("tuple", items)

\* json.dump: tuples are written as arrays, int keys as strings
JsonType(t) == IF t = "tuple" THEN "list" ELSE IF t = "int_item" THEN "item" ELSE t
RECURSIVE JsonDump(_)
JsonDump(v) ==
    [t |-> JsonType(v.t), a |-> v.a,
     items |-> [i \in 1..Len(v.items) |-> JsonDump(v.items[i])]]
\* json.load: an array is a list, an object a dict with str keys
JsonLoad(doc) == doc
RECURSIVE IsJsonValue(_)
IsJsonValue(v) ==
    /\ v.t \in {"null", "bool", "int", "str", "list", "dict", "item"}
    /\ \A i \in 1..Len(v.items) : IsJsonValue(v.items[i])
\* Python truthiness: None, False, 0, "", and empty containers are falsy; a
\* non-empty str is truthy whatever its characters ("0", "False")
PyTruthy(v) ==
    IF v.t \in {"list", "dict", "tuple"} THEN v.items # <<>>
    ELSE IF v.t = "null" THEN FALSE
    ELSE IF v.t = "bool" THEN v.a = "True"
    ELSE IF v.t = "int" THEN v.a # "0"
    ELSE v.a # ""

(***************************************************************************)
(* Text files.  A text is a sequence of characters; "CR" and "LF" are the  *)
(* carriage return and the line feed.  The cache files are opened in text  *)
(* mode without a newline argument: on write LF becomes os.linesep (LF on  *)
(* POSIX, which is what is modelled), on read CR LF and a lone CR become   *)
(* LF (universal newlines).                                                *)
(***************************************************************************)
WriteText(text) == text
RECURSIVE ReadText(_)
ReadText(chars) ==
    IF chars = <<>> THEN <<>>
    ELSE IF chars[1] = "CR"
    THEN IF Len(chars) > 1 /\ chars[2] = "LF"
         THEN <<"LF">> \o ReadText(SubSeq(chars, 3, Len(chars)))
         ELSE <<"LF">> \o ReadText(Tail(chars))
    ELSE <<chars[1]>> \o ReadText(Tail(chars))

\* a file: nothing, a JSON document, or text
NoFile == [kind |-> "none", doc |-> PyNone, chars |-> <<>>]
JsonFile(v) == [kind |-> "json", doc |-> JsonDump(v), chars |-> <<>>]
TextFile(text) == [kind |-> "text", doc |-> PyNone, chars |-> WriteText(text)]

(***************************************************************************)
(* The inputs of the storage operations.                                   *)
(***************************************************************************)
\* {"k": [1, {"n": null}]}, and a value that is no JSON value: (1,)
VNested == PyDict(<<Item("k", PyList(<<Atom("int", "1"), PyDict(<<Item("n", PyNone)>>)>>))>>)
VTuple == PyTuple(<<Atom("int", "1")>>)
StoredValues == {VNested, VTuple}
Texts == {<<"a", "LF", "b">>, <<"a", "CR", "LF", "b">>}
RawKeys == {"a", "a.json", "b"}
DocIds == {"d1", "d2"}
CacheIds == {"1", "2"}

\* `if filename.endswith('.json'): filename = filename[:-5]`
StripJson(name) == IF name = "a.json" THEN "a" ELSE name
RawStems == {StripJson(k) : k \in RawKeys}

\* analysis results: a bucket is a bare list of results or an envelope
\* {summary, timing_stats, results}
AResult(n) == PyDict(<<Item("bill", Atom("str", n)), Item("analysis", PyDict(<<>>))>>)
Envelope(results) ==
    PyDict(<<Item("summary", PyDict(<<>>)), Item("timing_stats", PyDict(<<>>)),
             Item("results", results)>>)
ResultLists == {PyList(<<>>), PyList(<<AResult("HB1")>>)}
Buckets == ResultLists \cup {Envelope(l) : l \in ResultLists}
IsEnvelope(b) == b.t = "dict"
\* the list of results a bucket holds
ResultsOf(b) == IF IsEnvelope(b) THEN b.items[3].items[1] ELSE b
RunIds == {"r1", "analysis_r1", "r1.json", "r2"}
\* `prefix = run_id if run_id.startswith('analysis_') else f"analysis_{run_id}"`,
\* then `if prefix.endswith('.json'): prefix = prefix[:-5]`
AnalysisPrefix(run_id) ==
    LET startswith_analysis == run_id = "analysis_r1"
        prefix == IF startswith_analysis THEN run_id
                  ELSE IF run_id = "r1" THEN "analysis_r1"
                  ELSE IF run_id = "r1.json" THEN "analysis_r1.json"
                  ELSE "analysis_r2"
    IN IF prefix = "analysis_r1.json" THEN "analysis_r1" ELSE prefix
AnalysisPrefixes == {AnalysisPrefix(r) : r \in RunIds}

(***************************************************************************)
(* Bill lookup in raw data: get_bill_by_number and bill_exists_in_raw      *)
(* (local_file_storage.py, lines 217-277).                                 *)
(***************************************************************************)
BillNumbers == {"SB001", "INVALID999"}
RawBill(n) == PyDict(<<Item("bill_number", Atom("str", n)), Item("title", Atom("str", "t"))>>)
\* the raw data a file can hold: a list of bills, a masterlist summary, a
\* `bills` list, a dict whose values are bills, a search response, scalars,
\* and documents whose `summary`, `masterlist` or `bills` is not a collection
\* of bills
RawShapes ==
    {PyList(<<RawBill("SB001"), Atom("str", "x")>>),
     PyList(<<RawBill("SB001")>>),
     PyList(<<>>),
     PyDict(<<Item("summary", PyDict(<<Item("masterlist", PyList(<<RawBill("SB001")>>))>>))>>),
     PyDict(<<Item("summary", PyDict(<<Item("masterlist",
                                           PyDict(<<Item("0", RawBill("SB001"))>>))>>))>>),
     PyDict(<<Item("summary", PyDict(<<Item("masterlist", PyNone)>>))>>),
     PyDict(<<Item("summary", PyDict(<<Item("count", Atom("int", "1"))>>)),
              Item("bills", PyList(<<RawBill("SB001")>>))>>),
     PyDict(<<Item("summary", PyNone)>>),
     PyDict(<<Item("summary", Atom("str", "masterlist"))>>),
     PyDict(<<Item("bills", PyNone)>>),
     PyDict(<<Item("k1", RawBill("SB001"))>>),
     PyDict(<<Item("k1", RawBill("SB001")), Item("k2", Atom("str", "x"))>>),
     PyDict(<<Item("k1", Atom("str", "x")), Item("k2", RawBill("SB001"))>>),
     PyDict(<<>>),
     PyDict(<<Item("status", Atom("str", "OK")),
              Item("searchresult", PyDict(<<Item("0", RawBill("SB001"))>>))>>),
     Atom("str", "text"),
     PyNone}
\* a file that does not hold a JSON document
CorruptFile == [kind |-> "text", doc |-> PyNone, chars |-> <<"{">>]

\* what an expression gives: a value, or the exception it raises
Val(v) == [err |-> "", v |-> v]
Exc(e) == [err |-> e, v |-> PyNone]

DictHas(d, k) == \E i \in 1..Len(d.items) : d.items[i].a = k
DictGet(d, k) == d.items[CHOOSE i \in 1..Len(d.items) : d.items[i].a = k].items[1]
DictValues(d) == [i \in 1..Len(d.items) |-> d.items[i].items[1]]
DictKeys(d) == [i \in 1..Len(d.items) |-> Atom("str", d.items[i].a)]
\* `k in v`: a key of a dict, an element of a list, a substring of a str
\* (the strings of the model contain k only when they are k)
In(k, v) ==
    IF v.t = "dict" THEN Val(DictHas(v, k))
    ELSE IF v.t \in {"list", "tuple"}
    THEN Val(\E i \in 1..Len(v.items) : v.items[i] = Atom("str", k))
    ELSE IF v.t = "str" THEN Val(v.a = k)
    ELSE Exc("TypeError")
\* v[k] with a str k
Subscript(v, k) ==
    IF v.t = "dict" THEN (IF DictHas(v, k) THEN Val(DictGet(v, k)) ELSE Exc("KeyError"))
    ELSE Exc("TypeError")
\* `for bill in bills`: the elements of a list, the keys of a dict, the
\* characters of a str
Iterate(v) ==
    IF v.t \in {"list", "tuple"} THEN Val(v.items)
    ELSE IF v.t = "dict" THEN Val(DictKeys(v))
    ELSE IF v.t = "str" THEN Val(<<Atom("str", "c")>>)
    ELSE Exc("TypeError")
\* `isinstance(bill, dict) and bill.get('bill_number') == bill_number`
IsBill(bill, bill_number) ==
    /\ bill.t = "dict"
    /\ DictHas(bill, "bill_number")
    /\ DictGet(bill, "bill_number") = Atom("str", bill_number)

\* the masterlist and `bills` branches, shared by both functions: the value
\* to search, or "other" when neither branch applies
NamedBills(data) ==
    LET has_summary == DictHas(data, "summary")
        summary == DictGet(data, "summary")
        has_masterlist == In("masterlist", summary)
    IN IF has_summary /\ has_masterlist.err # "" THEN Exc(has_masterlist.err)
       ELSE IF has_summary /\ has_masterlist.v THEN Subscript(summary, "masterlist")
       ELSE IF DictHas(data, "bills") THEN Val(DictGet(data, "bills"))
       ELSE Exc("other")

\* the exceptions both functions catch
LookupCatches == {"FileNotFoundError", "JSONDecodeError", "KeyError"}

\* the search loop over `bills`, given as a Val or an Exc
SearchBills(to_search, bill_number) ==
    LET seq == IF to_search.err = "" THEN Iterate(to_search.v) ELSE Exc(to_search.err)
    IN IF seq.err # "" THEN Exc(seq.err)
       ELSE IF \E i \in 1..Len(seq.v) : IsBill(seq.v[i], bill_number)
       THEN Val(seq.v[CHOOSE i \in 1..Len(seq.v) :
                        /\ IsBill(seq.v[i], bill_number)
                        /\ \A j \in 1..(i - 1) : ~IsBill(seq.v[j], bill_number)])
       ELSE Val(PyNone)

\* load_raw_data inside the try of both functions
LoadForLookup(file) ==
    IF file.kind = "none" THEN Exc("FileNotFoundError")
    ELSE IF file.kind # "json" THEN Exc("JSONDecodeError")
    ELSE Val(JsonLoad(file.doc))

(***************************************************************************)
(* get_bill_by_number(bill_number, filename), lines 248-277: the bill,     *)
(* None, or the exception that leaves the function.                        *)
(***************************************************************************)
GetBillByNumber(file, bill_number) ==
    LET data == LoadForLookup(file)
        named == NamedBills(data.v)
        to_search == IF data.v.t = "dict"
                 THEN IF named.err = "other" THEN Val(PyList(DictValues(data.v)))
                      ELSE named
                 ELSE Val(data.v)
        found == SearchBills(to_search, bill_number)
    IN IF data.err # "" THEN Val(PyNone)
       ELSE IF data.v.t \notin {"dict", "list"} THEN Val(PyNone)
       ELSE IF found.err \in LookupCatches THEN Val(PyNone)
       ELSE found

(***************************************************************************)
(* bill_exists_in_raw(bill_number, filename), lines 217-246.  Without a    *)
(* masterlist or `bills` key it searches the values when the first value   *)
(* is not a dict and the dict itself otherwise; list(...)[0] of an empty   *)
(* dict raises IndexError.                                                 *)
(***************************************************************************)
BillExistsInRaw(file, bill_number) ==
    LET data == LoadForLookup(file)
        named == NamedBills(data.v)
        to_search == IF data.v.t = "dict"
                 THEN IF named.err = "other"
                      THEN IF data.v.items = <<>> THEN Exc("IndexError")
                           ELSE IF DictValues(data.v)[1].t # "dict"
                           THEN Val(PyList(DictValues(data.v)))
                           ELSE Val(data.v)
                      ELSE named
                 ELSE Val(data.v)
        found == SearchBills(to_search, bill_number)
    IN IF data.err # "" THEN Val(Atom("bool", "False"))
       ELSE IF data.v.t \notin {"dict", "list"} THEN Val(Atom("bool", "False"))
       ELSE IF found.err \in LookupCatches THEN Val(Atom("bool", "False"))
       ELSE IF found.err # "" THEN found
       ELSE Val(Atom("bool", IF found.v = PyNone THEN "False" ELSE "True"))

(***************************************************************************)
(* Names of filter results.  A run id or file name is a stem with a number *)
(* of leading "filter_results_" and a number of trailing ".json":          *)
(* [p |-> 1, stem |-> "x", e |-> 1] is "filter_results_x.json".            *)
(***************************************************************************)
FilterStems == {"x", "y"}
\* x, x.json, filter_results_x, filter_results_x.json,
\* filter_results_filter_results_x, and y
FilterRunIds ==
    [p : {0, 1}, stem : {"x"}, e : {0, 1}]
      \cup {[p |-> 2, stem |-> "x", e |-> 0], [p |-> 0, stem |-> "y", e |-> 0]}
\* the names a file of data/filtered can have
FilteredFileNames == [p : {0, 1, 2, 3}, stem : FilterStems, e : {1, 2, 3}]
\* a file written by an earlier layout, without the prefix: x.json
LegacyFile == [p |-> 0, stem |-> "x", e |-> 1]
StartsWithPrefix(n) == n.p > 0
AddPrefix(n) == [n EXCEPT !.p = @ + 1]
EndsWithJson(n) == n.e > 0
StripExt(n) == [n EXCEPT !.e = @ - 1]
AddExt(n) == [n EXCEPT !.e = @ + 1]
\* {summary, relevant_bills} documents
FilterDoc(n) ==
    PyDict(<<Item("summary", PyDict(<<Item("total_analyzed", Atom("int", n))>>)),
             Item("relevant_bills", PyList(<<>>))>>)
FilterDocs == {FilterDoc("1"), FilterDoc("2")}
LegacyDoc == FilterDoc("0")

\* variant: every run is written to the same file
SaveFilteredName_OneFile(run_id) == [p |-> 1, stem |-> "x", e |-> 1]

\* save_filtered_results, lines 66-76: the file the run is written to
SaveFilteredName(run_id) ==
    LET prefixed == IF StartsWithPrefix(run_id) THEN run_id ELSE AddPrefix(run_id)
        filename == IF EndsWithJson(prefixed) THEN StripExt(prefixed) ELSE prefixed
    IN AddExt(filename)

\* variant: the prefixed name is tried before the exact one
PossibleFilenames_PrefixFirst(run_id) ==
    <<AddPrefix(run_id), run_id, AddExt(AddPrefix(run_id)), AddExt(run_id)>>

\* load_filtered_results, lines 84-89: possible_filenames
PossibleFilenames(run_id) ==
    <<run_id, AddPrefix(run_id), AddExt(run_id), AddExt(AddPrefix(run_id))>>
\* lines 92-95: the file of a candidate
CandidatePath(filename) == IF EndsWithJson(filename) THEN filename ELSE AddExt(filename)
FileExists(dir, name) == name \in DOMAIN dir /\ dir[name].kind # "none"

\* load_filtered_results(run_id), lines 81-101: the document of the first
\* candidate whose file exists, or FileNotFoundError
LoadFiltered(dir, run_id) ==
    LET paths == [i \in 1..4 |-> CandidatePath(PossibleFilenames(run_id)[i])]
    IN IF \E i \in 1..4 : FileExists(dir, paths[i])
       THEN Val(JsonLoad(dir[paths[CHOOSE i \in 1..4 :
                                     /\ FileExists(dir, paths[i])
                                     /\ \A j \in 1..(i - 1) : ~FileExists(dir, paths[j])]].doc))
       ELSE Exc("FileNotFoundError")

(***************************************************************************)
(* StorageProvider (src/storage_provider.py) and its three backends.       *)
(***************************************************************************)
Backends == {"local", "azure_blob", "database"}
\* the abstract methods of StorageProvider
ContractOps ==
    {"save_raw_data", "load_raw_data", "save_filtered_results", "load_filtered_results",
     "save_analysis_results", "load_analysis_results", "get_bill_from_cache",
     "save_bill_to_cache", "list_raw_files", "list_filtered_results",
     "bill_exists_in_raw", "get_bill_by_number", "get_bill_text_from_cache",
     "save_bill_text_to_cache"}
\* the contract methods each backend class defines
Defines(backend) ==
    IF backend = "local" THEN ContractOps
    ELSE ContractOps \ {"get_bill_text_from_cache", "save_bill_text_to_cache"}
\* abc: a class with abstract methods left cannot be instantiated
Instantiate(backend) ==
    IF ContractOps \subseteq Defines(backend) THEN "ok" ELSE "TypeError"
\* StorageProviderFactory.create
FactoryCreate(backend) ==
    IF backend \in Backends
    THEN [backend |-> backend, status |-> Instantiate(backend)]
    ELSE [backend |-> backend, status |-> "ValueError"]

(***************************************************************************)
(* HookManager (src/hook_system.py).  A hook is an instance of a DataHook  *)
(* class; its process is a function of the data and the context:           *)
(*   TagHook    returns {**data, "tag": "TagHook"},                        *)
(*   TupleHook  returns (data,),                                           *)
(*   FailHook   raises.                                                    *)
(* The context carries an item_id or none (NoItem).                        *)
(***************************************************************************)
HookTimings == {"pre_analysis", "post_analysis"}
\* hook classes: one that adds a tag to a dict, one whose output is a tuple,
\* one whose process raises, one whose get_cache_key raises
HookClasses == {"TagHook", "TupleHook", "FailHook", "KeyFailHook"}
ItemIds == {"1", "2"}
NoItem == ""
HookData == {PyDict(<<Item("x", Atom("int", "1"))>>), PyDict(<<Item("x", Atom("int", "2"))>>)}
TagItem == Item("tag", Atom("str", "TagHook"))

\* hook.process(data, context)
Process(class, data) ==
    IF class = "TagHook"
    THEN IF data.t # "dict" THEN [raised |-> TRUE, value |-> data]
         ELSE IF \E i \in 1..Len(data.items) : data.items[i] = TagItem
         THEN [raised |-> FALSE, value |-> data]
         ELSE [raised |-> FALSE, value |-> PyDict(Append(data.items, TagItem))]
    ELSE IF class = "TupleHook"
    THEN [raised |-> FALSE, value |-> PyTuple(<<data>>)]
    ELSE [raised |-> TRUE, value |-> data]

\* DataHook.get_cache_key, lines 48-64: f"{ClassName}_{item_id}", or None;
\* a hook can override it, and the override can raise
NoKey == <<"", NoItem>>
KeyRaises(class) == class = "KeyFailHook"
GetCacheKey(class, item) == IF item = NoItem THEN NoKey ELSE <<class, item>>
HookKeys == HookClasses \X ItemIds

\* _save_to_cache, lines 176-195: the file is opened for writing, and
\* written only for a str, a dict or a list
EmptyFile == [kind |-> "empty", doc |-> PyNone, chars |-> <<>>]
SaveToCache(cache, key, data) ==
    IF data.t \in {"str", "dict", "list"}
    THEN [cache EXCEPT ![key] = JsonFile(data)]
    ELSE [cache EXCEPT ![key] = EmptyFile]
\* _load_from_cache, lines 152-174: None when there is no file or it does
\* not parse
LoadFromCache(cache, key) ==
    IF cache[key].kind = "json" THEN JsonLoad(cache[key].doc) ELSE PyNone

(***************************************************************************)
(* execute_hooks(timing, data, context), lines 107-150, over the hooks hs  *)
(* of the timing; caching is whether the manager has a cache_dir.          *)
(***************************************************************************)
\* variant: a hook that raises ends the loop
AfterHook_Abort(rest, failed) == IF failed THEN <<>> ELSE rest
\* variant: an entry that holds no JSON document is served as a hit
IsHit_AnyFile(file, cached) == file.kind # "none"

\* variant: every hook is handed the data execute_hooks was called with
NextData_Original(data, out) == data
\* `result` is what the next hook receives
NextData(data, out) == out
\* the except branch is inside the loop: the next hook is tried whatever happened
AfterHook(rest, failed) == rest
\* `if cached is not None`
IsHit(file, cached) == cached # PyNone

\* one turn of the loop for one hook: what was done, on which data, with
\* which result, and the cache files after it
HookStep(class, data, item, cache, caching) ==
    LET key == IF KeyRaises(class) THEN NoKey ELSE GetCacheKey(class, item)
        use_cache == key # NoKey /\ caching
        file == IF use_cache THEN cache[key] ELSE NoFile
        cached == IF use_cache THEN LoadFromCache(cache, key) ELSE PyNone
        p == Process(class, data)
        step(kind, out, after) ==
            [class |-> class, key |-> key, before |-> file.kind, kind |-> kind,
             input |-> data, output |-> out,
             after |-> IF use_cache THEN after[key].kind ELSE "none",
             cache |-> after]
    IN IF KeyRaises(class) THEN step("failed", data, cache)
       ELSE IF IsHit(file, cached) THEN step("cached", cached, cache)
       ELSE IF p.raised THEN step("failed", data, cache)
       ELSE step("process", p.value,
                 IF use_cache THEN SaveToCache(cache, key, p.value) ELSE cache)

\* what the trace of a call keeps of a step
TraceEntry(st) ==
    [class |-> st.class, key |-> st.key, before |-> st.before, kind |-> st.kind,
     input |-> st.input, output |-> st.output, after |-> st.after]

RECURSIVE ExecuteHooks(_, _, _, _, _)
ExecuteHooks(hs, data, item, cache, caching) ==
    IF hs = <<>> THEN [result |-> data, cache |-> cache, trace |-> <<>>]
    ELSE LET st == HookStep(Head(hs), data, item, cache, caching)
             rest == ExecuteHooks(AfterHook(Tail(hs), st.kind = "failed"),
                                  NextData(data, st.output), item, st.cache, caching)
         IN [result |-> rest.result, cache |-> rest.cache,
             trace |-> <<TraceEntry(st)>> \o rest.trace]

NoExec ==
    [op |-> "none", timing |-> "", data |-> PyNone, item |-> NoItem,
     with_cache |-> PyNone, without_cache |-> PyNone, trace |-> <<>>]

(***************************************************************************)
(* The format normalizer (src/format_normalizer.py).  A document is the    *)
(* value json.load gave: a dict with its keys in order, or a value that is *)
(* not a dict.  `keys` holds the names x for which `x in data` is true:    *)
(* the keys of a dict, the string elements of a list, the substrings of a  *)
(* string.  A bill is a dict; a field that the bill does not have is       *)
(* Missing (text fields) or NoScore (numeric fields).  Scores are counted  *)
(* in units of 0.00001.                                                    *)
(***************************************************************************)
MaxNormBills == 2
MaxKeys == 2
Missing == "missing"
NoScore == -1
ScoreUnit == 100000

BillFields == <<"bill_id", "bill_number", "number", "title", "url", "reason",
                "status_date", "last_action", "year", "session",
                "similarity_score", "distance">>
AlanExtraKeys == {"bill_id", "status_date", "last_action", "year", "session",
                  "similarity_score", "distance"}

\* a bill of the AI-filtered shape, a bill of the vector-similarity shape, and
\* a bill that has the number under both names but no reason and no score
BillA1 ==
    [bill_number |-> "SB00123", number |-> Missing, title |-> "An Act X", url |-> "u1",
     reason |-> "matches domain X", bill_id |-> Missing, status_date |-> Missing,
     last_action |-> Missing, year |-> Missing, session |-> Missing,
     similarity_score |-> NoScore, distance |-> NoScore]
BillB1 ==
    [bill_number |-> Missing, number |-> "SB01071", title |-> "An Act Y", url |-> "u3",
     reason |-> Missing, bill_id |-> "1932259", status_date |-> "2025-01-22",
     last_action |-> "referred", year |-> "2025", session |-> "2025 Regular Session",
     similarity_score |-> 52436, distance |-> 90712]
BillMixed ==
    [bill_number |-> "SB00124", number |-> "SB01072", title |-> Missing, url |-> "u2",
     reason |-> Missing, bill_id |-> "7", status_date |-> Missing,
     last_action |-> "passed", year |-> Missing, session |-> Missing,
     similarity_score |-> NoScore, distance |-> 100000]
InputBills == {BillA1, BillB1, BillMixed}
BillLists == SeqsUpTo(InputBills, MaxNormBills)

TopKeys == {"relevant_bills", "results", "summary", "total_results"}
\* the orders in which up to MaxKeys distinct keys can appear in a document
KeySeqs ==
    {ks \in SeqsUpTo(TopKeys, MaxKeys) : \A i, j \in 1..Len(ks) : i # j => ks[i] # ks[j]}
HasKey(ks, k) == \E i \in 1..Len(ks) : ks[i] = k

DictDocs ==
    UNION {[k : {"dict"}, keys : {ks},
            relevant_bills : IF HasKey(ks, "relevant_bills") THEN BillLists ELSE {<<>>},
            results : IF HasKey(ks, "results") THEN BillLists ELSE {<<>>}] : ks \in KeySeqs}
\* [], ["results"], ["relevant_bills"], "text", "results", "relevant_bills", null, 5
OtherDocs ==
    [k : {"list", "str"}, keys : {<<>>, <<"results">>, <<"relevant_bills">>},
     relevant_bills : {<<>>}, results : {<<>>}]
      \cup [k : {"null", "num"}, keys : {<<>>}, relevant_bills : {<<>>}, results : {<<>>}]
Docs == DictDocs \cup OtherDocs
NoDoc == [k |-> "null", keys |-> <<>>, relevant_bills |-> <<>>, results |-> <<>>]

\* bill.get(field): None when the bill has no such field
Get(bill, field) == IF bill[field] = Missing THEN None ELSE bill[field]
\* bill.get(field, 0)
GetScore(bill, field) == IF bill[field] = NoScore THEN 0 ELSE bill[field]
\* list(bill.keys())
BillKeys(bill) ==
    SelectSeq(BillFields, LAMBDA f : IF f \in {"similarity_score", "distance"}
                                     THEN bill[f] # NoScore ELSE bill[f] # Missing)

\* variant: the score is cut after the fourth decimal instead of rounded
Fmt4_Truncate(x) ==
    [int |-> (x \div 10) \div (ScoreUnit \div 10),
     frac |-> (x \div 10) % (ScoreUnit \div 10)]

\* f"{x:.4f}": the integer part and the four decimals of x rounded to 0.0001
\* (no score of the model lies halfway between two multiples of 0.0001)
Fmt4(x) ==
    [int |-> ((x + 5) \div 10) \div (ScoreUnit \div 10),
     frac |-> ((x + 5) \div 10) % (ScoreUnit \div 10)]

\* a reason is null, a text, or the synthesized
\* "Vector similarity match (score: S, distance: D)"
NoFmt == [int |-> 0, frac |-> 0]
TextReason(v) ==
    [kind |-> IF v = None THEN "null" ELSE "text", text |-> v,
     score |-> NoFmt, distance |-> NoFmt]
SimilarityReason(s, d) ==
    [kind |-> "similarity", text |-> "Vector similarity match", score |-> Fmt4(s),
     distance |-> Fmt4(d)]

\* extra_metadata: its keys and their values
NoExtra ==
    [keys |-> {}, bill_id |-> None, status_date |-> None, last_action |-> None,
     year |-> None, session |-> None, similarity_score |-> 0, distance |-> 0]

\* what a normalizer function returned or raised; `found` is the list of keys
\* the error message names
NoInfo ==
    [bill_count |-> 0, has_summary |-> FALSE, has_similarity_scores |-> FALSE,
     fields |-> <<>>]
NormRaise(err, found) ==
    [raised |-> TRUE, err |-> err, names_keys |-> err = "ValueError", found |-> found,
     format |-> "", bills |-> <<>>, info |-> NoInfo]
NormReturn(format, normalized, info) ==
    [raised |-> FALSE, err |-> "", names_keys |-> FALSE, found |-> <<>>,
     format |-> format, bills |-> normalized, info |-> info]

(***************************************************************************)
(* detect_format(data), lines 14-36.  `in` raises TypeError on null and on *)
(* a number; data.keys() raises AttributeError on a list and on a string.  *)
(***************************************************************************)
DetectFormat(data) ==
    IF data.k \in {"null", "num"} THEN NormRaise("TypeError", <<>>)
    ELSE IF HasKey(data.keys, "relevant_bills") THEN NormReturn("original", <<>>, NoInfo)
    ELSE IF HasKey(data.keys, "results") THEN NormReturn("alan", <<>>, NoInfo)
    ELSE IF data.k = "dict" THEN NormRaise("ValueError", data.keys)
    ELSE NormRaise("AttributeError", <<>>)

\* _normalize_original_format, the body of the loop (lines 90-96)
NormalizedOriginalBill(bill) ==
    [bill_number |-> Get(bill, "bill_number"), title |-> Get(bill, "title"),
     url |-> Get(bill, "url"), reason |-> TextReason(Get(bill, "reason")),
     extra_metadata |-> NoExtra]

\* _normalize_alan_format, the body of the loop (lines 131-150)
NormalizedAlanBill(bill) ==
    LET similarity_score == GetScore(bill, "similarity_score")
        distance == GetScore(bill, "distance")
    IN [bill_number |-> Get(bill, "number"), title |-> Get(bill, "title"),
        url |-> Get(bill, "url"),
        reason |-> SimilarityReason(similarity_score, distance),
        extra_metadata |->
            [keys |-> AlanExtraKeys, bill_id |-> Get(bill, "bill_id"),
             status_date |-> Get(bill, "status_date"),
             last_action |-> Get(bill, "last_action"), year |-> Get(bill, "year"),
             session |-> Get(bill, "session"), similarity_score |-> similarity_score,
             distance |-> distance]]

\* data.get('relevant_bills', []) / data.get('results', []) of a dict
NormalizeOriginalFormat(data) ==
    [i \in 1..Len(data.relevant_bills) |-> NormalizedOriginalBill(data.relevant_bills[i])]
NormalizeAlanFormat(data) ==
    [i \in 1..Len(data.results) |-> NormalizedAlanBill(data.results[i])]

(***************************************************************************)
(* normalize_filter_results(data), lines 39-65.  data.get raises           *)
(* AttributeError when data is a list or a string.                         *)
(***************************************************************************)
NormalizeFilterResults(data) ==
    LET fmt == DetectFormat(data)
    IN IF fmt.raised THEN fmt
       ELSE IF data.k # "dict" THEN NormRaise("AttributeError", <<>>)
       ELSE IF fmt.format = "original"
            THEN NormReturn("original", NormalizeOriginalFormat(data), NoInfo)
            ELSE NormReturn("alan", NormalizeAlanFormat(data), NoInfo)

(***************************************************************************)
(* get_format_info(data), lines 156-191.                                   *)
(***************************************************************************)
GetFormatInfo(data) ==
    LET fmt == DetectFormat(data)
        original == fmt.format = "original"
        found == IF original THEN data.relevant_bills ELSE data.results
    IN IF fmt.raised THEN fmt
       ELSE IF data.k # "dict" THEN NormRaise("AttributeError", <<>>)
       ELSE NormReturn(fmt.format, <<>>,
               [bill_count |-> Len(found),
                has_summary |-> original /\ HasKey(data.keys, "summary"),
                has_similarity_scores |-> ~original,
                fields |-> IF found # <<>> THEN BillKeys(found[1]) ELSE <<>>])

NoNorm == [op |-> "none", out |-> NormReturn("", <<>>, NoInfo)]

(***************************************************************************)
(* LLMProviderFactory (src/llm_provider.py).  A setting is a string or     *)
(* NotSet (no such key, no such environment variable); None is the value   *)
(* of a key that is present and holds None.  The credentials the providers *)
(* need (PORTKEY_API_KEY, the Azure endpoint and deployment) are present.  *)
(***************************************************************************)
NotSet == "<not set>"
\* config: the `llm` section and the root-level `model`
LlmConfigs ==
    [provider : {NotSet, "portkey", "ollama", "azure"}, model : {NotSet, "cfg-model"},
     base_url : {NotSet, "http://cfg"}, root_model : {NotSet, "root-model"}]
\* LLM_PROVIDER, LLM_MODEL, LLM_BASE_URL
LlmEnvs ==
    [provider : {NotSet, "portkey", "OLLAMA", "azure", "bogus"}, model : {NotSet, "env-model"},
     base_url : {NotSet, "http://env/"}]
\* str.lower() and str.rstrip('/') on the strings above
Lower(x) == IF x = "OLLAMA" THEN "ollama" ELSE x
RstripSlash(x) == IF x = "http://env/" THEN "http://env" ELSE x
\* a or b, dict.get(key, default)
PyOr(a, b) == IF a \in {NotSet, None} THEN b ELSE a
GetOr(v, default) == IF v = NotSet THEN default ELSE v
NoProvider == [class |-> "none", model |-> NotSet, base_url |-> NotSet, err |-> ""]
\* PortkeyProvider / OllamaProvider __init__: base_url.rstrip('/')
UrlProvider(class, model, base_url) ==
    IF base_url = None THEN [NoProvider EXCEPT !.err = "AttributeError"]
    ELSE [class |-> class, model |-> model, base_url |-> RstripSlash(base_url), err |-> ""]

\* create_from_config(config), lines 326-384, on the llm section and root model
CreateFromConfig(llm, root_model) ==
    LET provider_type == Lower(GetOr(llm.provider, "portkey"))
        model == PyOr(llm.model, GetOr(root_model, "gpt-4o-mini"))
    IN IF provider_type = "portkey"
       THEN UrlProvider("portkey", model, GetOr(llm.base_url, "https://api.portkey.ai/v1"))
       ELSE IF provider_type = "azure"
       THEN [class |-> "azure", model |-> NotSet, base_url |-> NotSet, err |-> ""]
       ELSE IF provider_type = "ollama"
       THEN UrlProvider("ollama", model, GetOr(llm.base_url, "http://localhost:11434/v1"))
       ELSE [NoProvider EXCEPT !.err = "ValueError"]

\* {'k': from_env, **config.get('llm', {})}: a key of the llm section replaces
\* the value computed before it
Merge(from_env, from_llm) == IF from_llm # NotSet THEN from_llm ELSE from_env

\* create_from_env(config), lines 386-426
CreateFromEnv(cfg, env) ==
    IF env.provider # NotSet \/ env.model # NotSet \/ env.base_url # NotSet
    THEN LET effective ==
                 [provider |-> Merge(PyOr(env.provider, GetOr(cfg.provider, "portkey")),
                                     cfg.provider),
                  model |-> Merge(PyOr(env.model,
                                       PyOr(cfg.model, GetOr(cfg.root_model, "gpt-4o-mini"))),
                                  cfg.model),
                  base_url |-> Merge(PyOr(env.base_url, GetOr(cfg.base_url, None)),
                                     cfg.base_url)]
         IN CreateFromConfig(effective, NotSet)
    ELSE CreateFromConfig([provider |-> cfg.provider, model |-> cfg.model,
                           base_url |-> cfg.base_url], cfg.root_model)
NoLlmCall ==
    [op |-> "none", cfg |-> [provider |-> NotSet, model |-> NotSet, base_url |-> NotSet,
                             root_model |-> NotSet],
     env |-> [provider |-> NotSet, model |-> NotSet, base_url |-> NotSet], out |-> NoProvider]
LLMFactoryIdle == llm_out = NoLlmCall

(***************************************************************************)
(* DatabaseStorage (src/database_storage.py) on an instance whose pool and *)
(* tables exist.  The tables hold what has been committed:                 *)
(*   bills            bill_number -> [title, state, year] of the stored    *)
(*                    bill                                                 *)
(*   filter_results   <<bill_number, run_id>> -> reason                    *)
(*   analysis_results <<bill_number, run_id>> -> "T" / "F" (is_relevant)   *)
(*   legiscan_cache   bill_id -> cached payload                            *)
(*   pipeline_runs    run_id -> [stage, processed, relevant]               *)
(* pipeline_runs has one row per run_id: the key the upserts of lines 285   *)
(* and 441 name in ON CONFLICT (run_id).                                   *)
(***************************************************************************)
DbAbsent == "absent"
\* the bill raw data holds; result rows name it or ZZ999, which is no bill of
\* the bills table
DbBills == {"SB001"}
DbRuns == {"r1"}
DbCacheIds == {1}
DbPayloads == {"p1", "p2"}
NoRun == [stage |-> "none", processed |-> 0, relevant |-> 0]
\* NULL in the year column, None as the year of a file name
NoYear == 0
NoBillRow == [present |-> FALSE, title |-> "", state |-> None, year |-> NoYear]
EmptyDb ==
    [bills |-> [b \in DbBills |-> NoBillRow],
     filter |-> [k \in DbBills \X DbRuns |-> DbAbsent],
     analysis |-> [k \in DbBills \X DbRuns |-> DbAbsent],
     cache |-> [c \in DbCacheIds |-> DbAbsent],
     runs |-> [r \in DbRuns |-> NoRun]]

\* the inputs of the save operations
\* a bill of raw data: with or without a bill_id, with `state` and `year` keys
\* (CT, 2025) or without them
RawBillRow(has_id, located) ==
    [has_id |-> has_id, bill_number |-> "SB001", title |-> "t1",
     state |-> IF located THEN "CT" ELSE None, year |-> IF located THEN 2025 ELSE NoYear]
RawBillLists ==
    {<<>>, <<RawBillRow(TRUE, TRUE)>>, <<RawBillRow(TRUE, FALSE)>>,
     <<RawBillRow(FALSE, TRUE), RawBillRow(TRUE, TRUE)>>}
\* the names raw data is loaded by, and what lines 193-199 make of them:
\* '.json' removed, split('_'), parts[0].upper() and int(parts[-1]) when
\* the last part is made of digits
DbRawNames == {"ct_bills_2025.json", "ny_bills_2025", "ct_bills"}
StateOfName(filename) == IF filename = "ny_bills_2025" THEN "NY" ELSE "CT"
YearOfName(filename) == IF filename = "ct_bills" THEN NoYear ELSE 2025
FilterRow(n) == [bill_number |-> n, reason |-> "why"]
\* {summary: {total_analyzed, relevant_count}, relevant_bills: [...]}
DbFilterDoc(rows) ==
    [total_analyzed |-> Len(rows), relevant_count |-> Len(rows), relevant_bills |-> rows]
DbFilterDocs ==
    {DbFilterDoc(rows) : rows \in {<<>>, <<FilterRow("SB001")>>, <<FilterRow("ZZ999")>>,
                                   <<FilterRow("SB001"), FilterRow("ZZ999")>>}}
\* a bucket of analysis results: a bare list, or a {summary, timing_stats,
\* results} envelope around it
DbBucket(env, rows) == [env |-> env, rows |-> rows]
\* the (relevant, not_relevant) arguments of save_analysis_results
DbAnalysisArgs ==
    {[relevant |-> DbBucket(FALSE, <<>>), not_relevant |-> DbBucket(FALSE, <<>>)],
     [relevant |-> DbBucket(FALSE, <<"SB001">>), not_relevant |-> DbBucket(FALSE, <<>>)],
     [relevant |-> DbBucket(FALSE, <<"ZZ999">>), not_relevant |-> DbBucket(FALSE, <<"SB001">>)],
     [relevant |-> DbBucket(TRUE, <<"SB001">>), not_relevant |-> DbBucket(TRUE, <<>>)]}
\* len(bucket): the number of results of a list, the number of keys of a dict
PyLen(bucket) == IF bucket.env THEN 3 ELSE Len(bucket.rows)

\* one cursor.execute: an upsert into a table, or a SELECT
Stmt(tbl, key, val) == [tbl |-> tbl, key |-> key, val |-> val]
SelectStmt == Stmt("select", "", "")
\* ON CONFLICT (run_id) DO UPDATE SET bills_processed, bills_relevant,
\* completed_at, status: the stage of an existing row is left as it is
UpsertRun(old, new) == IF old = NoRun THEN new ELSE [new EXCEPT !.stage = old.stage]
Apply(d, st) ==
    IF st.tbl = "bills" THEN [d EXCEPT !.bills[st.key] = st.val]
    ELSE IF st.tbl = "filter" THEN [d EXCEPT !.filter[st.key] = st.val]
    ELSE IF st.tbl = "analysis" THEN [d EXCEPT !.analysis[st.key] = st.val]
    ELSE IF st.tbl = "cache" THEN [d EXCEPT !.cache[st.key] = st.val]
    ELSE IF st.tbl = "runs" THEN [d EXCEPT !.runs[st.key] = UpsertRun(@, st.val)]
    ELSE d
RECURSIVE ApplyAll(_, _)
ApplyAll(d, stmts) ==
    IF stmts = <<>> THEN d ELSE ApplyAll(Apply(d, Head(stmts)), Tail(stmts))

\* variant: the rows executed before the exception stay
Rollback_KeepRows(before, partial) == partial

\* conn.rollback() in the except branch: the transaction's statements are undone
Rollback(before, partial) == before

\* the try block of a save: statement fail_at raises (Len(stmts) + 1 is
\* conn.commit()), 0 is a run in which nothing raises
RunTx(d, stmts, fail_at) ==
    IF fail_at = 0
    THEN [status |-> "ok", db |-> ApplyAll(d, stmts)]
    ELSE [status |-> "DBError",
          db |-> Rollback(d, ApplyAll(d, SubSeq(stmts, 1, fail_at - 1)))]
\* -1: pool.getconn() raises before the try block
GetConnFails == -1
FailPoints(stmts) == {GetConnFails} \cup (0..(Len(stmts) + 1))

\* variant: the connection goes back to the pool only when nothing raised
ReturnConnection_OnSuccess(raised) == IF raised THEN <<>> ELSE <<"put">>

\* finally: self._return_connection(conn)
ReturnConnection(raised) == <<"put">>
\* conn = self._get_connection(); try: ... finally: ...
Scoped(raised) == <<"get">> \o ReturnConnection(raised)
RECURSIVE Outstanding(_)
Outstanding(trace) ==
    IF trace = <<>> THEN 0
    ELSE (IF Head(trace) = "get" THEN 1 ELSE -1) + Outstanding(Tail(trace))

\* the statements of save_raw_data, lines 119-178: one upsert per bill that
\* has a bill_id
RECURSIVE RawStatements(_)
RawStatements(rows) ==
    IF rows = <<>> THEN <<>>
    ELSE (IF Head(rows).has_id
          THEN <<Stmt("bills", Head(rows).bill_number,
                      [present |-> TRUE, title |-> Head(rows).title,
                       state |-> Head(rows).state, year |-> Head(rows).year])>>
          ELSE <<>>) \o RawStatements(Tail(rows))
BillKnown(d, n) == n \in DOMAIN d.bills /\ d.bills[n].present
\* the statements of save_filtered_results, lines 246-297: per row the SELECT
\* of the bill and, when it is found, the upsert; then the pipeline_runs row
RECURSIVE FilterRowStatements(_, _, _)
FilterRowStatements(d, run_id, rows) ==
    IF rows = <<>> THEN <<>>
    ELSE <<SelectStmt>>
           \o (IF BillKnown(d, Head(rows).bill_number)
               THEN <<Stmt("filter", <<Head(rows).bill_number, run_id>>, Head(rows).reason)>>
               ELSE <<>>)
           \o FilterRowStatements(d, run_id, Tail(rows))
FilterStatements(d, run_id, data) ==
    FilterRowStatements(d, run_id, data.relevant_bills)
      \o <<Stmt("runs", run_id, [stage |-> "filter", processed |-> data.total_analyzed,
                                 relevant |-> data.relevant_count])>>
\* the statements of save_analysis_results, lines 375-453
RECURSIVE AnalysisRowStatements(_, _, _, _)
AnalysisRowStatements(d, run_id, rows, flag) ==
    IF rows = <<>> THEN <<>>
    ELSE <<SelectStmt>>
           \o (IF BillKnown(d, Head(rows))
               THEN <<Stmt("analysis", <<Head(rows), run_id>>, flag)>>
               ELSE <<>>)
           \o AnalysisRowStatements(d, run_id, Tail(rows), flag)
AnalysisStatements(d, run_id, relevant, not_relevant) ==
    AnalysisRowStatements(d, run_id, relevant.rows, "T")
      \o AnalysisRowStatements(d, run_id, not_relevant.rows, "F")
      \o <<Stmt("runs", run_id,
                [stage |-> "analysis", processed |-> PyLen(relevant) + PyLen(not_relevant),
                 relevant |-> PyLen(relevant)])>>

DbOp(op, key, status, committed, file, trace, ret) ==
    [op |-> op, key |-> key, arg |-> <<>>, status |-> status, executed |-> 0,
     committed |-> committed, file |-> file, trace |-> trace, ret |-> ret]
NoDbOp == DbOp("none", "", "ok", FALSE, "none", <<>>, <<>>)
\* variant: a file write that raises undoes the database write
FileFallback_Undo(before, committed, fallback, file_ok) ==
    IF ~fallback THEN [db |-> committed, file |-> "none", status |-> "ok"]
    ELSE IF file_ok THEN [db |-> committed, file |-> "ok", status |-> "ok"]
    ELSE [db |-> before, file |-> "raised", status |-> "OSError"]

\* what follows conn.commit() in a save: `if self.enable_file_fallback:
\* self.file_storage.save_...(...)`, whose exception leaves the method
FileFallback(before, committed, fallback, file_ok) ==
    IF ~fallback THEN [db |-> committed, file |-> "none", status |-> "ok"]
    ELSE IF file_ok THEN [db |-> committed, file |-> "ok", status |-> "ok"]
    ELSE [db |-> committed, file |-> "raised", status |-> "OSError"]

\* a save: the transaction, then the file fallback when it is enabled
\* (`if self.enable_file_fallback: self.file_storage.save_...`); file_ok is
\* whether the file backend's save returns; `executed` is the number of
\* statements that ran before the one that raised
DbSave(op, key, d, fallback, stmts, fail_at, file_ok) ==
    IF fail_at = GetConnFails
    THEN [db |-> d, last |-> DbOp(op, key, "PoolError", FALSE, "none", <<>>, <<>>)]
    ELSE LET tx == RunTx(d, stmts, fail_at)
             trace == Scoped(tx.status # "ok")
         IN IF tx.status # "ok"
            THEN [db |-> tx.db,
                  last |-> [DbOp(op, key, tx.status, FALSE, "none", trace, <<>>)
                               EXCEPT !.executed = fail_at - 1]]
            ELSE LET after == FileFallback(d, tx.db, fallback, file_ok)
                 IN [db |-> after.db,
                     last |-> DbOp(op, key, after.status, TRUE, after.file, trace, <<>>)]

\* load_raw_data, lines 191-231: the bills whose state and year columns are
\* those of the file name (`AND state = %s`, `AND year = %s` when the name
\* gives one; a NULL column matches nothing), as a masterlist
DbLoadRaw(d, filename) ==
    LET state == StateOfName(filename)
        year == YearOfName(filename)
        row == d.bills["SB001"]
        selected == /\ row.present
                    /\ (state # "" => row.state = state)
                    /\ (year # NoYear => row.year = year)
    IN IF ~selected THEN Exc("FileNotFoundError") ELSE Val(<<row.title>>)
\* the rows of a run in filter_results joined with bills
FilterRows(d, run_id) ==
    IF d.filter[<<"SB001", run_id>>] = DbAbsent THEN <<>>
    ELSE <<[bill_number |-> "SB001", title |-> d.bills["SB001"].title,
            reason |-> d.filter[<<"SB001", run_id>>]]>>
\* load_filtered_results, lines 310-356; the summary comes from the
\* pipeline_runs row of the run when its stage is 'filter'
DbLoadFiltered(d, run_id) ==
    LET rows == FilterRows(d, run_id)
        has_summary == d.runs[run_id].stage = "filter"
        processed == IF has_summary THEN d.runs[run_id].processed ELSE 0
    IN IF rows = <<>> THEN Exc("FileNotFoundError")
       ELSE Val([total_analyzed |-> processed,
                 relevant_count |-> IF has_summary THEN d.runs[run_id].relevant ELSE Len(rows),
                 not_relevant_count |-> processed - Len(rows),
                 relevant_bills |-> rows])
\* load_analysis_results, lines 466-520: the rows of the run in two lists
DbLoadAnalysis(d, run_id) ==
    LET v == d.analysis[<<"SB001", run_id>>]
    IN IF v = DbAbsent THEN Exc("FileNotFoundError")
       ELSE Val([relevant |-> IF v = "T" THEN <<"SB001">> ELSE <<>>,
                 not_relevant |-> IF v = "F" THEN <<"SB001">> ELSE <<>>])
\* get_bill_from_cache, lines 522-530
DbGetCache(d, bill_id) ==
    IF d.cache[bill_id] = DbAbsent THEN Val(None) ELSE Val(d.cache[bill_id])
\* where a load can raise: at pool.getconn() or at the execute/commit of
\* its q-th call of _execute_query; q = 0 is a load in which nothing raises
LoadFailPoints(queries) ==
    {[q |-> 0, at |-> "none"]} \cup [q : 1..queries, at : {"getconn", "query"}]
\* the q-th call of _execute_query raising, after the calls before it
FailedQuery(op, key, fail, before) ==
    IF fail.at = "getconn" THEN DbOp(op, key, "PoolError", FALSE, "none", before, <<>>)
    ELSE DbOp(op, key, "DBError", FALSE, "none", before \o Scoped(TRUE), <<>>)
\* a load made of n calls of _execute_query, lines 68-98: each call borrows a
\* connection and returns it; `out` is what the load makes of the rows of its
\* first query, FileNotFoundError when there are none
DbLoad(op, key, out, queries, fail) ==
    IF fail.q = 1 THEN FailedQuery(op, key, fail, <<>>)
    ELSE IF out.err # "" THEN DbOp(op, key, out.err, FALSE, "none", Scoped(FALSE), <<>>)
    ELSE IF fail.q = 2 THEN FailedQuery(op, key, fail, Scoped(FALSE))
    ELSE DbOp(op, key, "ok", FALSE, "none",
              IF queries = 2 THEN Scoped(FALSE) \o Scoped(FALSE) ELSE Scoped(FALSE), out.v)
DatabaseIdle ==
    /\ db_cfg = FALSE
    /\ db = EmptyDb
    /\ db_borrowed = 0
    /\ db_last = NoDbOp

(***************************************************************************)
(* Values of the variables before anything has run.                        *)
(***************************************************************************)
NoOutput ==
    [summary |-> [total_analyzed |-> 0, relevant_count |-> 0, not_relevant_count |-> 0],
     relevant_bills |-> <<>>, not_relevant_bills |-> <<>>]
NoCall == [op |-> "none", resp |-> [type |-> "provider_error", val |-> NoJson],
           out |-> [raised |-> FALSE, err |-> "", value |-> NoJson, max_tokens |-> 0]]
NoSummary ==
    [total_analyzed |-> 0, total_relevant |-> 0, total_not_relevant |-> 0,
     total_errors |-> 0]

\* the values of a subsystem's variables while another subsystem is studied
FilterRunIdle ==
    /\ bills = <<>>
    /\ batch_size = 1
    /\ batch_num = 0
    /\ all_results = <<>>
    /\ relevant_bills = <<>>
    /\ not_relevant_bills = <<>>
    /\ saved_filter = [status |-> "none", data |-> NoOutput]
    /\ fpc = "idle"
    /\ events = <<>>
    /\ flog = <<>>
FilterPassIdle ==
    /\ max_tokens = DEFAULT_MAX_TOKENS
    /\ last_call = NoCall
AnalyzerIdle ==
    /\ acfg = [api_key |-> FALSE, storage |-> FALSE, api_delay |-> FALSE]
    /\ bill_cache = [b \in BillIds |-> Absent]
    /\ text_cache = [d \in BillIds |-> Absent]
    /\ last_fetch_was_cached = "unset"
    /\ stored_ids = {}
    /\ last_analysis = NoAnalysis
NeverSaved == Atom("never", "")
NeverText == <<"never">>
NothingSaved ==
    [raw |-> [k \in RawStems |-> NeverSaved], bill |-> [k \in CacheIds |-> NeverSaved],
     text |-> [k \in DocIds |-> NeverText],
     analysis |-> [k \in AnalysisPrefixes |-> NeverSaved],
     filtered |-> [k \in FilteredFileNames |-> NeverSaved]]
Op(op, key, status, ret, text) ==
    [op |-> op, key |-> key, status |-> status, ret |-> ret, text |-> text]
NoOp == Op("none", "", "ok", PyNone, <<>>)
\* a data directory in which nothing has been stored yet
EmptyDirectory ==
    /\ raw_files = [f \in RawStems |-> NoFile]
    /\ bill_files = [f \in CacheIds |-> NoFile]
    /\ text_files = [f \in DocIds |-> NoFile]
    /\ analyzed_files = [f \in AnalysisPrefixes \X {"relevant", "not_relevant"} |-> NoFile]
    /\ filtered_files = [f \in FilteredFileNames |-> NoFile]
    /\ saved = NothingSaved
    /\ last_op = NoOp
StorageIdle ==
    /\ provider = [backend |-> "none", status |-> "none"]
    /\ EmptyDirectory
HooksIdle ==
    /\ hooks = [t \in HookTimings |-> <<>>]
    /\ hook_cache = [k \in HookKeys |-> NoFile]
    /\ last_exec = NoExec
NormalizerIdle ==
    /\ norm_doc = NoDoc
    /\ norm_out = NoNorm
AnalysisRunIdle ==
    /\ bills_to_process = <<>>
    /\ aidx = 0
    /\ relevant_results = <<>>
    /\ not_relevant_results = <<>>
    /\ analysis_out = [saved |-> FALSE, summary |-> NoSummary]
    /\ apc = "idle"

(***************************************************************************)
(* One call of analyze_data on the analyzer, by any caller.                *)
(***************************************************************************)
Analyze ==
    /\ apc = "idle"
    /\ \E bill_id \in BillIds \cup {NoBillId} :
         \E out \in {AnalyzeData(acfg, bill_cache, text_cache, last_fetch_was_cached,
                                 bill_id, env) : env \in CallEnvs} :
            /\ bill_cache' = out.cache
            /\ text_cache' = out.tcache
            /\ last_fetch_was_cached' = out.lfc
            /\ stored_ids' = IF out.stored THEN stored_ids \cup {bill_id} ELSE stored_ids
            /\ last_analysis' =
                   CallRecord(bill_id, bill_id \in stored_ids,
                              IF bill_id = NoBillId THEN Absent ELSE bill_cache[bill_id],
                              out)
    /\ UNCHANGED <<acfg, filterVars, passVars, runVars, storageVars, hookVars, normVars, llmVars, dbVars>>

Configs == [api_key : BOOLEAN, storage : BOOLEAN, api_delay : BOOLEAN]
InitAnalyze ==
    /\ FilterRunIdle
    /\ StorageIdle
    /\ HooksIdle
    /\ NormalizerIdle
    /\ LLMFactoryIdle
    /\ DatabaseIdle
    /\ FilterPassIdle
    /\ AnalysisRunIdle
    /\ acfg \in Configs
    /\ bill_cache = [b \in BillIds |-> Absent]
    /\ text_cache = [d \in BillIds |-> Absent]
    /\ last_fetch_was_cached = "unset"
    /\ stored_ids = {}
    /\ last_analysis = NoAnalysis
NextAnalyze == Analyze
SpecAnalyze == InitAnalyze /\ [][NextAnalyze]_vars

(***************************************************************************)
(* run_analysis_pass.main, lines 225-338 (run_direct_analysis.main, lines  *)
(* 336-450, runs the same loop).  A bill to process is its bill_number i   *)
(* and the bill_id the lookup gives for it (NoBillId when the lookup has   *)
(* none).  The analyzer of a run has no storage provider.                  *)
(***************************************************************************)
RunBill(i, has_id) ==
    [bill_number |-> i, bill_id |-> IF has_id THEN Min(i, MaxBillIds) ELSE NoBillId]
\* lines 304-307: the placeholder the except branch appends
Placeholder ==
    [kind |-> "error", error |-> "str(e)", is_relevant |-> "false",
     full_bill_text |-> "absent", has_timing |-> FALSE, cache_hit |-> FALSE,
     flags_null |-> FALSE]
Entry(bill, analysis) == [bill |-> bill.bill_number, analysis |-> analysis]
\* lines 268-300: the display raises on `special_flags: null`
AnalysisDisplayRaises(result) == result.kind = "analysis" /\ result.flags_null
\* line 262: analysis.get('is_relevant', False)
IsRelevant(result) == result.is_relevant = "true"

\* the two buckets after one iteration of the loop
AfterBill(rel, notrel, bill, out) ==
    IF bill.bill_id = NoBillId
    THEN [rel |-> rel, notrel |-> notrel]
    ELSE IF out.raised
    THEN [rel |-> rel, notrel |-> Append(notrel, Entry(bill, Placeholder))]
    ELSE LET r == IF IsRelevant(out.result)
                  THEN Append(rel, Entry(bill, out.result)) ELSE rel
             n == IF IsRelevant(out.result)
                  THEN notrel ELSE Append(notrel, Entry(bill, out.result))
         IN IF AnalysisDisplayRaises(out.result)
            THEN [rel |-> r, notrel |-> Append(n, Entry(bill, Placeholder))]
            ELSE [rel |-> r, notrel |-> n]

AnalysisLoopStep ==
    /\ apc = "loop"
    /\ aidx < Len(bills_to_process)
    /\ LET bill == bills_to_process[aidx + 1] IN
       \E out \in {AnalyzeData(acfg, bill_cache, text_cache, last_fetch_was_cached,
                               bill.bill_id, env) : env \in RunEnvs} :
         LET after == AfterBill(relevant_results, not_relevant_results, bill, out)
             called == bill.bill_id # NoBillId
         IN /\ last_fetch_was_cached' = IF called THEN out.lfc ELSE last_fetch_was_cached
            /\ relevant_results' = after.rel
            /\ not_relevant_results' = after.notrel
    /\ aidx' = aidx + 1
    /\ UNCHANGED <<bills_to_process, apc, analysis_out, acfg, bill_cache, text_cache,
                   stored_ids, last_analysis, filterVars, passVars, storageVars, hookVars, normVars, llmVars, dbVars>>

\* lines 309-338: both buckets are saved, then the summary is computed; the
\* percentages divide by len(bills_to_process)
CountErrors(notrel) == Cardinality({i \in 1..Len(notrel) : notrel[i].analysis.kind = "error"})
AnalysisFinish ==
    /\ apc = "loop"
    /\ aidx = Len(bills_to_process)
    /\ apc' = IF Len(bills_to_process) = 0 THEN "crashed" ELSE "done"
    /\ analysis_out' =
          [saved |-> TRUE,
           summary |-> IF Len(bills_to_process) = 0 THEN NoSummary
                       ELSE [total_analyzed |-> Len(bills_to_process),
                             total_relevant |-> Len(relevant_results),
                             total_not_relevant |-> Len(not_relevant_results),
                             total_errors |-> CountErrors(not_relevant_results)]]
    /\ UNCHANGED <<bills_to_process, aidx, relevant_results, not_relevant_results,
                   analyzerVars, filterVars, passVars, storageVars, hookVars, normVars, llmVars, dbVars>>

InitAnalysisRun ==
    /\ FilterRunIdle
    /\ StorageIdle
    /\ HooksIdle
    /\ NormalizerIdle
    /\ LLMFactoryIdle
    /\ DatabaseIdle
    /\ FilterPassIdle
    /\ \E n \in 0..MaxRunBills : \E has \in [1..n -> BOOLEAN] :
          bills_to_process = [i \in 1..n |-> RunBill(i, has[i])]
    /\ aidx = 0
    /\ relevant_results = <<>>
    /\ not_relevant_results = <<>>
    /\ apc = "loop"
    /\ analysis_out = [saved |-> FALSE, summary |-> NoSummary]
    /\ acfg \in {c \in Configs : ~c.storage}
    /\ bill_cache = [b \in BillIds |-> Absent]
    /\ text_cache = [d \in BillIds |-> Absent]
    /\ last_fetch_was_cached = "unset"
    /\ stored_ids = {}
    /\ last_analysis = NoAnalysis
NextAnalysisRun == AnalysisLoopStep \/ AnalysisFinish
SpecAnalysisRun == InitAnalysisRun /\ [][NextAnalysisRun]_vars
\* main() is one sequential loop with blocking calls: a run that can take its
\* next step takes it
FairAnalysisRun == InitAnalysisRun /\ [][NextAnalysisRun]_vars /\ WF_vars(NextAnalysisRun)


(***************************************************************************)
(* run_filter_pass.main, the input.                                        *)
(***************************************************************************)
\* bill i of the raw data: bill_number, title and url are always present
\* (fetch_legiscan_bills.py and parse_bills_data default them); the numbers
\* stand for distinct strings, UnknownTitle for 'Unknown' / 'N/A'
UnknownTitle == 0
Bill(i) == [bill_number |-> i, title |-> i, url |-> i]
BatchSizes == {1, 2}

\* num_batches = (len(bills) + batch_size - 1) // batch_size
NumBatches(n, bs) == (n + bs - 1) \div bs
\* bills[start_idx:end_idx] of batch number b (0-based)
BatchBills(bs, b) == SubSeq(bills, b * bs + 1, Min(b * bs + bs, Len(bills)))
\* the classifier answers with at most one result per bill of the batch, about
\* the first bill of the batch or about a bill that is not in the input
BatchIds(bs, b) == {BatchBills(bs, b)[1].bill_number, UnknownBill}

\* the per-result display of lines 180-190: result.get on a non-dict raises,
\* reason[:80] of a relevant result raises when reason is not a string
DisplayRaises(results) ==
    \E i \in 1..Len(results) :
        \/ ~results[i].dict
        \/ results[i].relevant /\ results[i].reason = None

\* bills_by_number.get(bill_number, {...'title': 'Unknown', 'url': 'N/A'})
BillsByNumber(n) ==
    IF \E i \in 1..Len(bills) : bills[i].bill_number = n
    THEN bills[CHOOSE i \in 1..Len(bills) :
                  /\ bills[i].bill_number = n
                  /\ \A j \in (i+1)..Len(bills) : bills[j].bill_number # n]
    ELSE [bill_number |-> n, title |-> UnknownTitle, url |-> UnknownTitle]

\* variant: the partition forgets the classifier's reason
ResultItem_DefaultReason(r) == [bill |-> BillsByNumber(r.bill_identifier), reason |-> None]

\* result.get('reason', 'No reason provided'): the key is always present here
ResultItem(r) == [bill |-> BillsByNumber(r.bill_identifier), reason |-> r.reason]

RECURSIVE SelectSeq2(_, _)
\* [x for x in s if x.relevant = flag], as result_item records
SelectSeq2(s, flag) ==
    IF s = <<>> THEN <<>>
    ELSE IF Head(s).relevant = flag
         THEN <<ResultItem(Head(s))>> \o SelectSeq2(Tail(s), flag)
         ELSE SelectSeq2(Tail(s), flag)

OutputRow(item) ==
    [bill_number |-> item.bill.bill_number, title |-> item.bill.title,
     url |-> item.bill.url, reason |-> item.reason]
OutputRows(s) == [i \in 1..Len(s) |-> OutputRow(s[i])]

\* variant: the results are appended before the display loop runs
AfterBatch_ExtendFirst(all, fb_raised, display_raised, batch_results) ==
    IF ~fb_raised THEN all \o batch_results ELSE all

\* all_results.extend(batch_results) is the statement after the display loop
\* inside the try: it is reached only when nothing before it raised
AfterBatch(all, fb_raised, display_raised, batch_results) ==
    IF ~fb_raised /\ ~display_raised THEN all \o batch_results ELSE all

\* `continue` in the except branch: the loop goes on with the next batch
AfterExcept(ok, last) == IF last THEN "organize" ELSE "loop"

(***************************************************************************)
(* One iteration of the batch loop (lines 161-206), try/except included.   *)
(***************************************************************************)
FilterLoopStep ==
    /\ fpc = "loop"
    /\ batch_num < NumBatches(Len(bills), batch_size)
    /\ \E resp \in Responses(BatchIds(batch_size, batch_num),
                                 Len(BatchBills(batch_size, batch_num))) :
         LET fb == FilterBatch(max_tokens, resp)
             batch_results == IF fb.raised THEN <<>> ELSE fb.value.res.items
             disp == ~fb.raised /\ DisplayRaises(batch_results)
             ok == ~fb.raised /\ ~disp
             last == batch_num = NumBatches(Len(bills), batch_size) - 1
         IN /\ max_tokens' = fb.max_tokens
            /\ all_results' = AfterBatch(all_results, fb.raised, disp, batch_results)
            /\ events' = events \o <<"call">> \o (IF ok /\ ~last THEN <<"sleep">> ELSE <<>>)
            /\ flog' = Append(flog, [fb_raised |-> fb.raised, display_raised |-> disp,
                                     results |-> batch_results])
            /\ batch_num' = batch_num + 1
            /\ fpc' = AfterExcept(ok, last)
    /\ UNCHANGED <<bills, batch_size, relevant_bills, not_relevant_bills, saved_filter,
                   last_call, analyzerVars, runVars, storageVars, hookVars, normVars, llmVars, dbVars>>

(***************************************************************************)
(* After the loop (lines 208-289): partition, summary, save.               *)
(***************************************************************************)
Organize ==
    /\ fpc = "organize"
    /\ LET rel == SelectSeq2(all_results, TRUE)
           notrel == SelectSeq2(all_results, FALSE)
           output_data ==
               [summary |-> [total_analyzed |-> Len(all_results),
                             relevant_count |-> Len(rel),
                             not_relevant_count |-> Len(notrel)],
                relevant_bills |-> OutputRows(rel),
                not_relevant_bills |-> OutputRows(notrel)]
       IN /\ relevant_bills' = rel
          /\ not_relevant_bills' = notrel
          /\ \E save_ok \in BOOLEAN :
               saved_filter' = [status |-> IF save_ok THEN "saved" ELSE "save_failed",
                                data |-> IF save_ok THEN output_data ELSE NoOutput]
    /\ fpc' = "done"
    /\ UNCHANGED <<bills, batch_size, batch_num, all_results, events, flog, passVars,
                   analyzerVars, runVars, storageVars, hookVars, normVars, llmVars, dbVars>>

InitFilterRun ==
    /\ \E n \in 1..MaxBills : bills = [i \in 1..n |-> Bill(i)]
    /\ batch_size \in BatchSizes
    /\ batch_num = 0
    /\ all_results = <<>>
    /\ relevant_bills = <<>>
    /\ not_relevant_bills = <<>>
    /\ saved_filter = [status |-> "none", data |-> NoOutput]
    /\ fpc = "loop"
    /\ events = <<>>
    /\ flog = <<>>
    /\ max_tokens = DEFAULT_MAX_TOKENS
    /\ last_call = NoCall
    /\ AnalyzerIdle
    /\ AnalysisRunIdle
    /\ StorageIdle
    /\ HooksIdle
    /\ NormalizerIdle
    /\ LLMFactoryIdle
    /\ DatabaseIdle

NextFilterRun == FilterLoopStep \/ Organize

SpecFilterRun == InitFilterRun /\ [][NextFilterRun]_vars

(***************************************************************************)
(* Direct calls of AIFilterPass.filter_batch on every kind of answer.      *)
(***************************************************************************)
CallFilterBatch ==
    /\ \E resp \in Responses({1, UnknownBill}, MaxItems) :
         LET fb == FilterBatch(max_tokens, resp)
         IN /\ last_call' = [op |-> "filter_batch", resp |-> resp, out |-> fb]
            /\ max_tokens' = fb.max_tokens
    /\ UNCHANGED <<filterVars, analyzerVars, runVars, storageVars, hookVars, normVars, llmVars, dbVars>>

CallFilterData ==
    /\ \E resp \in Responses({1, UnknownBill}, 1) :
         last_call' = [op |-> "filter_data", resp |-> resp, out |-> FilterData(max_tokens, resp)]
    /\ UNCHANGED <<max_tokens, filterVars, analyzerVars, runVars, storageVars, hookVars, normVars, llmVars, dbVars>>

InitFilterPass ==
    /\ FilterRunIdle
    /\ StorageIdle
    /\ HooksIdle
    /\ NormalizerIdle
    /\ LLMFactoryIdle
    /\ DatabaseIdle
    /\ max_tokens = DEFAULT_MAX_TOKENS
    /\ last_call = NoCall
    /\ AnalyzerIdle
    /\ AnalysisRunIdle

NextFilterPass == CallFilterBatch \/ CallFilterData

SpecFilterPass == InitFilterPass /\ [][NextFilterPass]_vars

(***************************************************************************)
(* StorageProviderFactory.create and the operations of LocalFileStorage    *)
(* (src/local_file_storage.py).  An operation needs a provider instance.   *)
(***************************************************************************)
otherVars == <<filterVars, passVars, analyzerVars, runVars, hookVars, normVars, llmVars, dbVars>>
HasProvider == provider.status = "ok" /\ provider.backend = "local"

\* a program creates its provider once; it can only try again when it got none
CreateProvider ==
    /\ ~HasProvider
    /\ \E backend \in Backends \cup {"s3"} :
         /\ provider' = FactoryCreate(backend)
         /\ last_op' = Op("create", backend, FactoryCreate(backend).status, PyNone, <<>>)
    /\ UNCHANGED <<raw_files, bill_files, text_files, analyzed_files, filtered_files, saved, otherVars>>

SaveRawData ==
    /\ HasProvider
    /\ \E k \in RawKeys, v \in StoredValues :
         /\ raw_files' = [raw_files EXCEPT ![StripJson(k)] = JsonFile(v)]
         /\ saved' = [saved EXCEPT !.raw[StripJson(k)] = v]
         /\ last_op' = Op("save_raw_data", k, "ok", PyNone, <<>>)
    /\ UNCHANGED <<provider, bill_files, text_files, analyzed_files, filtered_files, otherVars>>

LoadRawData ==
    /\ HasProvider
    /\ \E k \in RawKeys :
         last_op' = IF raw_files[StripJson(k)] = NoFile
                    THEN Op("load_raw_data", k, "FileNotFoundError", PyNone, <<>>)
                    ELSE Op("load_raw_data", k, "ok",
                            JsonLoad(raw_files[StripJson(k)].doc), <<>>)
    /\ UNCHANGED <<provider, raw_files, bill_files, text_files, analyzed_files, filtered_files, saved,
                   otherVars>>

SaveBillToCache ==
    /\ HasProvider
    /\ \E id \in CacheIds, v \in StoredValues :
         /\ bill_files' = [bill_files EXCEPT ![id] = JsonFile(v)]
         /\ saved' = [saved EXCEPT !.bill[id] = v]
         /\ last_op' = Op("save_bill_to_cache", id, "ok", PyNone, <<>>)
    /\ UNCHANGED <<provider, raw_files, text_files, analyzed_files, filtered_files, otherVars>>

GetBillFromCache ==
    /\ HasProvider
    /\ \E id \in CacheIds :
         last_op' = IF bill_files[id] = NoFile
                    THEN Op("get_bill_from_cache", id, "ok", PyNone, <<>>)
                    ELSE Op("get_bill_from_cache", id, "ok", JsonLoad(bill_files[id].doc),
                            <<>>)
    /\ UNCHANGED <<provider, raw_files, bill_files, text_files, analyzed_files, filtered_files, saved,
                   otherVars>>

SaveBillTextToCache ==
    /\ HasProvider
    /\ \E doc \in DocIds, t \in Texts :
         /\ text_files' = [text_files EXCEPT ![doc] = TextFile(t)]
         /\ saved' = [saved EXCEPT !.text[doc] = t]
         /\ last_op' = Op("save_bill_text_to_cache", doc, "ok", PyNone, <<>>)
    /\ UNCHANGED <<provider, raw_files, bill_files, analyzed_files, filtered_files, otherVars>>

GetBillTextFromCache ==
    /\ HasProvider
    /\ \E doc \in DocIds :
         last_op' = IF text_files[doc] = NoFile
                    THEN Op("get_bill_text_from_cache", doc, "ok", PyNone, <<>>)
                    ELSE Op("get_bill_text_from_cache", doc, "ok", PyStr,
                            ReadText(text_files[doc].chars))
    /\ UNCHANGED <<provider, raw_files, bill_files, text_files, analyzed_files, filtered_files, saved,
                   otherVars>>

InitStorage ==
    /\ FilterRunIdle
    /\ FilterPassIdle
    /\ AnalyzerIdle
    /\ AnalysisRunIdle
    /\ StorageIdle
    /\ HooksIdle
    /\ NormalizerIdle
    /\ LLMFactoryIdle
    /\ DatabaseIdle
NextStorage ==
    \/ CreateProvider
    \/ SaveRawData
    \/ LoadRawData
    \/ SaveBillToCache
    \/ GetBillFromCache
    \/ SaveBillTextToCache
    \/ GetBillTextFromCache
SpecStorage == InitStorage /\ [][NextStorage]_vars

(***************************************************************************)
(* Lookups on a data directory that already holds a raw file: the two bill *)
(* lookups next to the cache operations.  In last_op, `key` is the file    *)
(* name and `text` holds the bill number asked for.                        *)
(***************************************************************************)
LookupFiles == {"a", "missing.json"}
LookupStem(name) == IF name = "missing.json" THEN "b" ELSE StripJson(name)

GetBillByNumberCall ==
    /\ HasProvider
    /\ \E name \in LookupFiles, n \in BillNumbers :
         LET out == GetBillByNumber(raw_files[LookupStem(name)], n)
         IN last_op' = Op("get_bill_by_number", name,
                          IF out.err = "" THEN "ok" ELSE out.err, out.v, <<n>>)
    /\ UNCHANGED <<provider, raw_files, bill_files, text_files, analyzed_files, filtered_files, saved,
                   otherVars>>

BillExistsInRawCall ==
    /\ HasProvider
    /\ \E name \in LookupFiles, n \in BillNumbers :
         LET out == BillExistsInRaw(raw_files[LookupStem(name)], n)
         IN last_op' = Op("bill_exists_in_raw", name,
                          IF out.err = "" THEN "ok" ELSE out.err, out.v, <<n>>)
    /\ UNCHANGED <<provider, raw_files, bill_files, text_files, analyzed_files, filtered_files, saved,
                   otherVars>>

InitLookup ==
    /\ FilterRunIdle
    /\ FilterPassIdle
    /\ AnalyzerIdle
    /\ AnalysisRunIdle
    /\ HooksIdle
    /\ NormalizerIdle
    /\ LLMFactoryIdle
    /\ DatabaseIdle
    /\ provider = FactoryCreate("local")
    /\ \E file \in {JsonFile(v) : v \in RawShapes} \cup {CorruptFile, NoFile} :
         raw_files = [f \in RawStems |-> IF f = "a" THEN file ELSE NoFile]
    /\ bill_files = [f \in CacheIds |-> NoFile]
    /\ text_files = [f \in DocIds |-> NoFile]
    /\ analyzed_files = [f \in AnalysisPrefixes \X {"relevant", "not_relevant"} |-> NoFile]
    /\ filtered_files = [f \in FilteredFileNames |-> NoFile]
    /\ saved = NothingSaved
    /\ last_op = NoOp
NextLookup ==
    \/ GetBillByNumberCall
    \/ BillExistsInRawCall
    \/ SaveBillToCache
    \/ GetBillFromCache
    \/ SaveBillTextToCache
    \/ GetBillTextFromCache
SpecLookup == InitLookup /\ [][NextLookup]_vars

(***************************************************************************)
(* save_analysis_results / load_analysis_results of LocalFileStorage,      *)
(* lines 103-174, on a provider the factory has created.                   *)
(***************************************************************************)
SaveAnalysisResultsOf(bucket_values) ==
    /\ HasProvider
    /\ \E run_id \in RunIds, buckets \in bucket_values :
         LET relevant == buckets[1]
             not_relevant == buckets[2]
         IN
         /\ analyzed_files' =
               [analyzed_files EXCEPT
                  ![<<AnalysisPrefix(run_id), "relevant">>] = JsonFile(relevant),
                  ![<<AnalysisPrefix(run_id), "not_relevant">>] = JsonFile(not_relevant)]
         /\ saved' = [saved EXCEPT !.analysis[AnalysisPrefix(run_id)] =
                                      PyTuple(<<relevant, not_relevant>>)]
         /\ last_op' = Op("save_analysis_results", run_id, "ok", PyNone, <<>>)
    /\ UNCHANGED <<provider, raw_files, bill_files, text_files, filtered_files, otherVars>>
SaveAnalysisResults == SaveAnalysisResultsOf(Buckets \X Buckets)

\* what load_analysis_results reads for one bucket: [] when the file is missing
LoadBucket(prefix, bucket) ==
    IF analyzed_files[<<prefix, bucket>>] = NoFile THEN PyList(<<>>)
    ELSE JsonLoad(analyzed_files[<<prefix, bucket>>].doc)
LoadAnalysisResults ==
    /\ HasProvider
    /\ \E run_id \in RunIds :
         LET relevant == LoadBucket(AnalysisPrefix(run_id), "relevant")
             not_relevant == LoadBucket(AnalysisPrefix(run_id), "not_relevant")
         IN last_op' =
               IF ~PyTruthy(relevant) /\ ~PyTruthy(not_relevant)
               THEN Op("load_analysis_results", run_id, "FileNotFoundError", PyNone, <<>>)
               ELSE Op("load_analysis_results", run_id, "ok",
                       PyTuple(<<relevant, not_relevant>>), <<>>)
    /\ UNCHANGED <<provider, raw_files, bill_files, text_files, analyzed_files, filtered_files, saved,
                   otherVars>>

InitAnalysisStore ==
    /\ FilterRunIdle
    /\ FilterPassIdle
    /\ AnalyzerIdle
    /\ AnalysisRunIdle
    /\ provider = FactoryCreate("local")
    /\ EmptyDirectory
    /\ HooksIdle
    /\ NormalizerIdle
    /\ LLMFactoryIdle
    /\ DatabaseIdle
NextAnalysisStore == SaveAnalysisResults \/ LoadAnalysisResults
SpecAnalysisStore == InitAnalysisStore /\ [][NextAnalysisStore]_vars

(***************************************************************************)
(* save_filtered_results / load_filtered_results of LocalFileStorage,      *)
(* lines 64-101, next to the analysis results of the same provider.  The   *)
(* directory data/filtered may already hold a file without the prefix.     *)
(***************************************************************************)
SaveFilteredResults ==
    /\ HasProvider
    /\ \E run_id \in FilterRunIds, data \in FilterDocs :
         /\ filtered_files' = [filtered_files EXCEPT ![SaveFilteredName(run_id)] = JsonFile(data)]
         /\ saved' = [saved EXCEPT !.filtered[SaveFilteredName(run_id)] = data]
         /\ last_op' = Op("save_filtered_results", run_id, "ok", PyNone, <<>>)
    /\ UNCHANGED <<provider, raw_files, bill_files, text_files, analyzed_files, otherVars>>

LoadFilteredResults ==
    /\ HasProvider
    /\ \E run_id \in FilterRunIds :
         LET out == LoadFiltered(filtered_files, run_id)
         IN last_op' = Op("load_filtered_results", run_id,
                          IF out.err = "" THEN "ok" ELSE out.err, out.v, <<>>)
    /\ UNCHANGED <<provider, raw_files, bill_files, text_files, analyzed_files,
                   filtered_files, saved, otherVars>>

\* save_analysis_results called with bare lists, one of them with a result
SaveAnalysisLists ==
    SaveAnalysisResultsOf({<<PyList(<<AResult("HB1")>>), PyList(<<>>)>>,
                           <<PyList(<<>>), PyList(<<AResult("HB1")>>)>>})

InitRunStore ==
    /\ FilterRunIdle
    /\ FilterPassIdle
    /\ AnalyzerIdle
    /\ AnalysisRunIdle
    /\ HooksIdle
    /\ NormalizerIdle
    /\ LLMFactoryIdle
    /\ DatabaseIdle
    /\ provider = FactoryCreate("local")
    /\ raw_files = [f \in RawStems |-> NoFile]
    /\ bill_files = [f \in CacheIds |-> NoFile]
    /\ text_files = [f \in DocIds |-> NoFile]
    /\ analyzed_files = [f \in AnalysisPrefixes \X {"relevant", "not_relevant"} |-> NoFile]
    /\ \E legacy \in {NoFile, JsonFile(LegacyDoc)} :
          filtered_files = [f \in FilteredFileNames |->
                               IF f = LegacyFile THEN legacy ELSE NoFile]
    /\ saved = NothingSaved
    /\ last_op = NoOp
NextRunStore ==
    \/ SaveFilteredResults
    \/ LoadFilteredResults
    \/ SaveAnalysisLists
    \/ LoadAnalysisResults
SpecRunStore == InitRunStore /\ [][NextRunStore]_vars

(***************************************************************************)
(* Calls of LLMProviderFactory.create_from_env under every configuration   *)
(* and environment.                                                        *)
(***************************************************************************)
CreateFromEnvCall ==
    /\ \E cfg \in LlmConfigs, env \in LlmEnvs :
         llm_out' = [op |-> "create_from_env", cfg |-> cfg, env |-> env,
                     out |-> CreateFromEnv(cfg, env)]
    /\ UNCHANGED <<filterVars, passVars, analyzerVars, runVars, storageVars, hookVars,
                   normVars, dbVars>>
InitLLMFactory ==
    /\ FilterRunIdle
    /\ FilterPassIdle
    /\ AnalyzerIdle
    /\ AnalysisRunIdle
    /\ StorageIdle
    /\ HooksIdle
    /\ NormalizerIdle
    /\ LLMFactoryIdle
    /\ DatabaseIdle
NextLLMFactory == CreateFromEnvCall
SpecLLMFactory == InitLLMFactory /\ [][NextLLMFactory]_vars

(***************************************************************************)
(* Calls of the DatabaseStorage operations in any order, with and without  *)
(* the file fallback, each with every point at which it can raise.         *)
(***************************************************************************)
otherThanDb ==
    <<filterVars, passVars, analyzerVars, runVars, storageVars, hookVars, normVars, llmVars>>
\* the outcomes of a save: one per point at which it can raise and, in
\* dual-write mode, per outcome of the file write
SaveOutcomes(op, key, arg, stmts) ==
    {[r EXCEPT !.last.arg = IF r.last.committed THEN arg ELSE <<>>] :
        r \in {DbSave(op, key, db, db_cfg, stmts, x[1], x[2]) :
                 x \in FailPoints(stmts) \X (IF db_cfg THEN BOOLEAN ELSE {TRUE})}}
\* the outcomes of a load: one per point at which it can raise
LoadOutcomes(op, key, out, queries) ==
    {DbLoad(op, key, out, queries, fail) : fail \in LoadFailPoints(queries)}
DbSaveRawData ==
    \E rows \in RawBillLists :
      \E r \in SaveOutcomes("save_raw_data", "ct_bills_2025.json", rows, RawStatements(rows)) :
        /\ db' = r.db
        /\ db_last' = r.last
        /\ db_borrowed' = db_borrowed + Outstanding(r.last.trace)
        /\ UNCHANGED <<db_cfg, otherThanDb>>
DbLoadRawData ==
    \E filename \in DbRawNames :
      \E r \in LoadOutcomes("load_raw_data", filename, DbLoadRaw(db, filename), 1) :
        /\ db_last' = r
        /\ db_borrowed' = db_borrowed + Outstanding(r.trace)
        /\ UNCHANGED <<db_cfg, db, otherThanDb>>
DbSaveFilteredResults ==
    \E run_id \in DbRuns, data \in DbFilterDocs :
      \E r \in SaveOutcomes("save_filtered_results", run_id, data,
                            FilterStatements(db, run_id, data)) :
        /\ db' = r.db
        /\ db_last' = r.last
        /\ db_borrowed' = db_borrowed + Outstanding(r.last.trace)
        /\ UNCHANGED <<db_cfg, otherThanDb>>
DbLoadFilteredResults ==
    \E run_id \in DbRuns :
      \E r \in LoadOutcomes("load_filtered_results", run_id, DbLoadFiltered(db, run_id), 2) :
        /\ db_last' = r
        /\ db_borrowed' = db_borrowed + Outstanding(r.trace)
        /\ UNCHANGED <<db_cfg, db, otherThanDb>>
DbSaveAnalysisResults ==
    \E run_id \in DbRuns, arg \in DbAnalysisArgs :
      \E r \in SaveOutcomes("save_analysis_results", run_id, arg,
                            AnalysisStatements(db, run_id, arg.relevant, arg.not_relevant)) :
        /\ db' = r.db
        /\ db_last' = r.last
        /\ db_borrowed' = db_borrowed + Outstanding(r.last.trace)
        /\ UNCHANGED <<db_cfg, otherThanDb>>
DbLoadAnalysisResults ==
    \E run_id \in DbRuns :
      \E r \in LoadOutcomes("load_analysis_results", run_id, DbLoadAnalysis(db, run_id), 1) :
        /\ db_last' = r
        /\ db_borrowed' = db_borrowed + Outstanding(r.trace)
        /\ UNCHANGED <<db_cfg, db, otherThanDb>>
DbSaveBillToCache ==
    \E bill_id \in DbCacheIds, payload \in DbPayloads :
      \E r \in SaveOutcomes("save_bill_to_cache", bill_id, payload,
                            <<Stmt("cache", bill_id, payload)>>) :
        /\ db' = r.db
        /\ db_last' = r.last
        /\ db_borrowed' = db_borrowed + Outstanding(r.last.trace)
        /\ UNCHANGED <<db_cfg, otherThanDb>>
DbGetBillFromCache ==
    \E bill_id \in DbCacheIds :
      \E r \in LoadOutcomes("get_bill_from_cache", bill_id, DbGetCache(db, bill_id), 1) :
        /\ db_last' = r
        /\ db_borrowed' = db_borrowed + Outstanding(r.trace)
        /\ UNCHANGED <<db_cfg, db, otherThanDb>>
InitDatabase ==
    /\ FilterRunIdle
    /\ FilterPassIdle
    /\ AnalyzerIdle
    /\ AnalysisRunIdle
    /\ StorageIdle
    /\ HooksIdle
    /\ NormalizerIdle
    /\ LLMFactoryIdle
    /\ db_cfg \in BOOLEAN
    /\ db = EmptyDb
    /\ db_borrowed = 0
    /\ db_last = NoDbOp
NextDatabase ==
    \/ DbSaveRawData
    \/ DbLoadRawData
    \/ DbSaveFilteredResults
    \/ DbLoadFilteredResults
    \/ DbSaveAnalysisResults
    \/ DbLoadAnalysisResults
    \/ DbSaveBillToCache
    \/ DbGetBillFromCache
SpecDatabase == InitDatabase /\ [][NextDatabase]_vars

(***************************************************************************)
(* A HookManager with a cache directory, next to what a manager without    *)
(* one returns for the same registrations and the same call.               *)
(***************************************************************************)
Registered == Len(hooks["pre_analysis"]) + Len(hooks["post_analysis"])
RegisterHook ==
    /\ Registered < MaxHooks
    /\ \E class \in HookClasses, timing \in HookTimings :
         hooks' = [hooks EXCEPT ![timing] = Append(@, class)]
    /\ UNCHANGED <<hook_cache, last_exec, filterVars, passVars, analyzerVars, runVars,
                   storageVars, normVars, llmVars, dbVars>>

ExecuteHooksCall ==
    /\ \E timing \in HookTimings, data \in HookData, item \in ItemIds \cup {NoItem} :
         \E with \in {ExecuteHooks(hooks[timing], data, item, hook_cache, TRUE)} :
            /\ hook_cache' = with.cache
            /\ last_exec' =
                  [op |-> "execute_hooks", timing |-> timing, data |-> data, item |-> item,
                   with_cache |-> with.result, trace |-> with.trace,
                   without_cache |->
                      ExecuteHooks(hooks[timing], data, item, hook_cache, FALSE).result]
    /\ UNCHANGED <<hooks, filterVars, passVars, analyzerVars, runVars, storageVars,
                   normVars, llmVars, dbVars>>

InitHooks ==
    /\ FilterRunIdle
    /\ FilterPassIdle
    /\ AnalyzerIdle
    /\ AnalysisRunIdle
    /\ StorageIdle
    /\ HooksIdle
    /\ NormalizerIdle
    /\ LLMFactoryIdle
    /\ DatabaseIdle
NextHooks == RegisterHook \/ ExecuteHooksCall
SpecHooks == InitHooks /\ [][NextHooks]_vars

(***************************************************************************)
(* The format normalizer: the three public functions applied to a parsed   *)
(* document.                                                               *)
(***************************************************************************)
nonNormVars == <<filterVars, passVars, analyzerVars, runVars, storageVars, hookVars,
                 llmVars, dbVars>>

DetectFormatCall ==
    /\ norm_out' = [op |-> "detect_format", out |-> DetectFormat(norm_doc)]
    /\ UNCHANGED <<norm_doc, nonNormVars>>

NormalizeFilterResultsCall ==
    /\ norm_out' = [op |-> "normalize_filter_results",
                    out |-> NormalizeFilterResults(norm_doc)]
    /\ UNCHANGED <<norm_doc, nonNormVars>>

GetFormatInfoCall ==
    /\ norm_out' = [op |-> "get_format_info", out |-> GetFormatInfo(norm_doc)]
    /\ UNCHANGED <<norm_doc, nonNormVars>>

InitNormalize ==
    /\ FilterRunIdle
    /\ FilterPassIdle
    /\ AnalyzerIdle
    /\ AnalysisRunIdle
    /\ StorageIdle
    /\ HooksIdle
    /\ LLMFactoryIdle
    /\ DatabaseIdle
    /\ norm_doc \in Docs
    /\ norm_out = NoNorm
NextNormalize == DetectFormatCall \/ NormalizeFilterResultsCall \/ GetFormatInfoCall
SpecNormalize == InitNormalize /\ [][NextNormalize]_vars

(***************************************************************************)
(* C1 -- batch isolation of the filter loop.                               *)
(***************************************************************************)
FilterBatchReturned(e) == ~e.fb_raised
TryBodyCompleted(e) == ~e.fb_raised /\ ~e.display_raised

RECURSIVE ConcatResults(_, _)
\* concatenation, in batch order, of the results of the logged batches whose
\* filter_batch call returned and, if whole_try, whose display did not raise
ConcatResults(log, whole_try) ==
    IF log = <<>> THEN <<>>
    ELSE (IF (IF whole_try THEN TryBodyCompleted(Head(log))
                           ELSE FilterBatchReturned(Head(log)))
          THEN Head(log).results ELSE <<>>)
            \o ConcatResults(Tail(log), whole_try)

\* C1 as stated: whatever subset of batches has filter_batch raise, the run
\* goes through every batch and the concatenated result set holds exactly the
\* results of the batches whose filter_batch call did not raise, in batch order.
C1_AsStated ==
    fpc \in {"organize", "done"} =>
        /\ Len(flog) = NumBatches(Len(bills), batch_size)
        /\ all_results = ConcatResults(flog, FALSE)

\* C1 amended: the run goes through every batch whatever raises, and at every
\* point of the loop all_results holds exactly the results of the batches
\* processed so far whose try body (the filter_batch call and the per-result
\* display) did not raise, in batch order.
C1_BatchIsolation ==
    /\ batch_num = Len(flog)
    /\ fpc = "loop" => batch_num < NumBatches(Len(bills), batch_size)
    /\ fpc \in {"organize", "done"} => Len(flog) = NumBatches(Len(bills), batch_size)
    /\ all_results = ConcatResults(flog, TRUE)

\* three batches, the second raises in the AI call, the first and the third
\* deliver results that are all kept
C1_Witness ==
    /\ fpc = "done"
    /\ Len(flog) = 3
    /\ flog[2].fb_raised
    /\ TryBodyCompleted(flog[1]) /\ flog[1].results # <<>>
    /\ TryBodyCompleted(flog[3]) /\ flog[3].results # <<>>
    /\ all_results = flog[1].results \o flog[3].results

(***************************************************************************)
(* C11.  The partition of the filter results.                              *)
(***************************************************************************)
\* the number of positions of s whose element satisfies Test
CountOf(s, Test(_)) == Cardinality({i \in 1..Len(s) : Test(s[i])})

\* the entries of a bucket that stand for a result (same bill number, same reason)
BucketCount(bucket, r) ==
    CountOf(bucket, LAMBDA e : e.bill.bill_number = r.bill_identifier /\ e.reason = r.reason)

\* C11: no bucket is filled while batches are still being processed; once the
\* partition is done the last batch has finished, every result of the
\* concatenation is in the bucket its `relevant` flag names, with its reason,
\* and in no other, and the saved summary has
\* total_analyzed = relevant_count + not_relevant_count.
C11_PartitionAfterBatches ==
    /\ fpc \in {"loop", "organize"} =>
          relevant_bills = <<>> /\ not_relevant_bills = <<>>
    /\ fpc = "done" =>
          /\ batch_num = NumBatches(Len(bills), batch_size)
          /\ all_results = ConcatResults(flog, TRUE)
          /\ Len(relevant_bills) + Len(not_relevant_bills) = Len(all_results)
          /\ \A i \in 1..Len(all_results) :
               LET r == all_results[i]
                   same == CountOf(all_results,
                             LAMBDA x : /\ x.bill_identifier = r.bill_identifier
                                        /\ x.reason = r.reason
                                        /\ x.relevant = r.relevant)
               IN /\ r.relevant =>
                       BucketCount(relevant_bills, r) = same
                  /\ ~r.relevant =>
                       BucketCount(not_relevant_bills, r) = same
          /\ saved_filter.status = "saved" =>
               /\ saved_filter.data.summary.total_analyzed =
                    saved_filter.data.summary.relevant_count
                      + saved_filter.data.summary.not_relevant_count
               /\ saved_filter.data.summary.total_analyzed = Len(all_results)
               /\ \A i \in 1..Len(relevant_bills) :
                    saved_filter.data.relevant_bills[i].reason = relevant_bills[i].reason
               /\ \A i \in 1..Len(not_relevant_bills) :
                    saved_filter.data.not_relevant_bills[i].reason
                      = not_relevant_bills[i].reason

\* a run over two batches that ended with a relevant and a not relevant result
\* and a saved summary
C11_Witness ==
    /\ fpc = "done"
    /\ batch_num >= 2
    /\ saved_filter.status = "saved"
    /\ \E i \in 1..Len(relevant_bills) : relevant_bills[i].reason = "matches domain X"
    /\ not_relevant_bills # <<>>


(***************************************************************************)
(* C12.  Filter results against the input bills.                           *)
(***************************************************************************)
\* C12: after a filter run every input bill has exactly one filter result, in
\* relevant_bills or in not_relevant_bills, and no filter result is about a
\* bill that was not in the input.
C12_AsStated ==
    fpc = "done" =>
        /\ \A i \in 1..Len(bills) :
             CountOf(relevant_bills \o not_relevant_bills,
                     LAMBDA e : e.bill.bill_number = bills[i].bill_number) = 1
        /\ \A j \in 1..Len(relevant_bills \o not_relevant_bills) :
             \E i \in 1..Len(bills) :
                (relevant_bills \o not_relevant_bills)[j].bill.bill_number
                    = bills[i].bill_number

(***************************************************************************)
(* C13, C14.  The format normalizer.                                       *)
(***************************************************************************)
\* the top-level keys of a document: only a JSON object has any
TopLevelKeys(data) == IF data.k = "dict" THEN data.keys ELSE <<>>
Unrecognized(data) ==
    /\ ~HasKey(TopLevelKeys(data), "relevant_bills")
    /\ ~HasKey(TopLevelKeys(data), "results")

\* C13: on a document that has neither a `relevant_bills` nor a `results`
\* top-level key, detect_format, normalize_filter_results and get_format_info
\* raise the unrecognized-format error, its message names the top-level keys
\* of the document, and no normalized list is produced.
C13_AsStated ==
    (norm_out.op # "none" /\ Unrecognized(norm_doc)) =>
        /\ norm_out.out.raised
        /\ norm_out.out.err = "ValueError"
        /\ norm_out.out.names_keys
        /\ norm_out.out.found = TopLevelKeys(norm_doc)
        /\ norm_out.out.bills = <<>>

\* the text fields a canonical record takes over unchanged
SameOrNull(out_value, in_value) ==
    out_value = (IF in_value = Missing THEN None ELSE in_value)
\* the printed number p (integer part, four decimals) is x rounded to 0.0001
Rounds(p, x) ==
    /\ p.frac \in 0..9999
    /\ 10 * (p.int * 10000 + p.frac) - x \in -5..5

\* C14: normalize_filter_results gives one canonical record per input bill, in
\* input order.  For a document with `relevant_bills` the reason is the bill's
\* reason and extra_metadata is {}.  For a document with only `results` the
\* bill_number is the bill's `number`, the reason is the similarity string with
\* score and distance at four decimals, and extra_metadata has exactly the keys
\* bill_id, status_date, last_action, year, session, similarity_score, distance
\* with the values of the input bill (null, or 0 for the two scores, where the
\* bill has none).
C14_NormalizeMapsEachBill ==
    (norm_out.op = "normalize_filter_results" /\ norm_doc.k = "dict"
        /\ ~Unrecognized(norm_doc)) =>
        LET out == norm_out.out.bills
            original == HasKey(norm_doc.keys, "relevant_bills")
            input == IF original THEN norm_doc.relevant_bills ELSE norm_doc.results
        IN /\ ~norm_out.out.raised
           /\ Len(out) = Len(input)
           /\ \A i \in 1..Len(input) :
                /\ SameOrNull(out[i].title, input[i].title)
                /\ SameOrNull(out[i].url, input[i].url)
                /\ original =>
                     /\ SameOrNull(out[i].bill_number, input[i].bill_number)
                     /\ out[i].reason.kind \in {"text", "null"}
                     /\ SameOrNull(out[i].reason.text, input[i].reason)
                     /\ out[i].extra_metadata.keys = {}
                /\ ~original =>
                     /\ SameOrNull(out[i].bill_number, input[i].number)
                     /\ out[i].reason.kind = "similarity"
                     /\ Rounds(out[i].reason.score,
                               out[i].extra_metadata.similarity_score)
                     /\ Rounds(out[i].reason.distance, out[i].extra_metadata.distance)
                     /\ out[i].extra_metadata.keys =
                          {"bill_id", "status_date", "last_action", "year", "session",
                           "similarity_score", "distance"}
                     /\ SameOrNull(out[i].extra_metadata.bill_id, input[i].bill_id)
                     /\ SameOrNull(out[i].extra_metadata.status_date, input[i].status_date)
                     /\ SameOrNull(out[i].extra_metadata.last_action, input[i].last_action)
                     /\ SameOrNull(out[i].extra_metadata.year, input[i].year)
                     /\ SameOrNull(out[i].extra_metadata.session, input[i].session)
                     /\ out[i].extra_metadata.similarity_score =
                          (IF input[i].similarity_score = NoScore THEN 0
                           ELSE input[i].similarity_score)
                     /\ out[i].extra_metadata.distance =
                          (IF input[i].distance = NoScore THEN 0 ELSE input[i].distance)

\* a document of the vector-similarity shape with two bills has been normalized:
\* the first record prints 0.52436 as 0.5244, the second has the renamed number
C14_Witness ==
    /\ norm_out.op = "normalize_filter_results"
    /\ norm_doc.k = "dict" /\ norm_doc.results = <<BillB1, BillMixed>>
    /\ ~HasKey(norm_doc.keys, "relevant_bills")
    /\ Len(norm_out.out.bills) = 2
    /\ norm_out.out.bills[1].reason.score = [int |-> 0, frac |-> 5244]
    /\ norm_out.out.bills[2].bill_number = "SB01072"

(***************************************************************************)
(* C18.  Lookups of data that is not there.                                *)
(***************************************************************************)
RECURSIVE Mentions(_, _)
\* the value holds, at any depth, a bill with this number
Mentions(v, bill_number) ==
    \/ IsBill(v, bill_number)
    \/ \E i \in 1..Len(v.items) : Mentions(v.items[i], bill_number)
\* a bill with this number is present in the raw data of the file
PresentInRaw(file, bill_number) ==
    file.kind = "json" /\ Mentions(JsonLoad(file.doc), bill_number)

\* C18: get_bill_from_cache and get_bill_text_from_cache return None for an id
\* that was never cached, and get_bill_by_number returns None whenever the raw
\* data holds no bill with the number asked for, whatever the raw data is and
\* also when the raw file does not exist; none of them raises.
C18_AsStated ==
    /\ (last_op.op = "get_bill_from_cache" /\ saved.bill[last_op.key] = NeverSaved) =>
          last_op.status = "ok" /\ last_op.ret = PyNone
    /\ (last_op.op = "get_bill_text_from_cache" /\ saved.text[last_op.key] = NeverText) =>
          last_op.status = "ok" /\ last_op.ret = PyNone
    /\ (last_op.op = "get_bill_by_number"
          /\ ~PresentInRaw(raw_files[LookupStem(last_op.key)], last_op.text[1])) =>
          last_op.status = "ok" /\ last_op.ret = PyNone

(***************************************************************************)
(* C2.  The analysis loop and its two buckets.                             *)
(***************************************************************************)
EntriesOf(bucket, bill_number) ==
    Cardinality({i \in 1..Len(bucket) : bucket[i].bill = bill_number})

\* C2: every bill the loop has gone through has exactly one entry, in exactly
\* one of relevant_results / not_relevant_results, so that at the end of the
\* loop len(relevant_results) + len(not_relevant_results) equals
\* len(bills_to_process), whatever failed and whether or not the bill has a
\* resolvable bill id.
C2_AsStated ==
    apc \in {"loop", "done", "crashed"} =>
        /\ \A i \in 1..aidx :
             EntriesOf(relevant_results, bills_to_process[i].bill_number)
               + EntriesOf(not_relevant_results, bills_to_process[i].bill_number) = 1
        /\ aidx = Len(bills_to_process) =>
             Len(relevant_results) + Len(not_relevant_results) = Len(bills_to_process)

(***************************************************************************)
(* C7, C8, C9.  analyze_data.                                              *)
(***************************************************************************)
Called == last_analysis.op = "analyze_data"

\* C7 (as stated): with a storage provider, once analyze_data has fetched
\* bill X upstream and stored it in the cache, a later analyze_data for X
\* issues no getBill call, applies no delay for it, and reports cache_hit.
C7_AsStated ==
    (Called /\ acfg.storage /\ last_analysis.was_stored) =>
        /\ last_analysis.bill_calls = 0
        /\ ~last_analysis.bill_delay
        /\ ~last_analysis.raised => last_analysis.result.cache_hit

\* C7: with a storage provider, once analyze_data has fetched a non-empty
\* bill record for X upstream and stored it in the cache, every later
\* analyze_data for X issues no getBill call and applies no delay for it,
\* and the result it returns carries timing with cache_hit = true; the call
\* that fetched and stored the record reported cache_hit = false.
C7_CacheHitOnLaterCalls ==
    /\ (Called /\ acfg.storage /\ last_analysis.was_stored
          /\ Truthy(last_analysis.was_cached)) =>
        /\ last_analysis.bill_calls = 0
        /\ ~last_analysis.bill_delay
        /\ ~last_analysis.stored
        /\ ~last_analysis.raised =>
             last_analysis.result.has_timing /\ last_analysis.result.cache_hit
    /\ (Called /\ last_analysis.stored) =>
        /\ last_analysis.bill_calls = 1
        /\ ~last_analysis.raised =>
             last_analysis.result.has_timing /\ ~last_analysis.result.cache_hit

\* a later call for a stored bill that returned a result, under a provider
\* with an API delay configured
C7_Witness ==
    /\ Called /\ acfg.storage /\ acfg.api_delay
    /\ last_analysis.was_stored /\ Truthy(last_analysis.was_cached)
    /\ ~last_analysis.raised
    /\ last_analysis.result.cache_hit
    /\ last_analysis.bill_calls = 0

\* C8: when the fetch of the bill record or of its document text fails,
\* analyze_data does not raise, still calls the classifier and returns a
\* result with timing whose full_bill_text is absent or null.
EnrichmentFailed == last_analysis.enrich \in {"bill_raised", "no_bill", "text_raised", "no_text"}
C8_AsStated ==
    (Called /\ EnrichmentFailed) =>
        /\ ~last_analysis.raised
        /\ last_analysis.ai_called
        /\ last_analysis.result.has_timing
        /\ last_analysis.result.full_bill_text \in {"absent", "null"}

\* C9: when the classifier's output cannot be parsed, analyze_data returns
\* (does not raise) a result of the form {error, is_relevant: false}.
C9_AsStated ==
    (Called /\ last_analysis.ai_called
       /\ last_analysis.result.error = "JSON parsing failed") =>
        /\ ~last_analysis.raised
        /\ last_analysis.result.kind = "error"
        /\ last_analysis.result.is_relevant = "false"

(***************************************************************************)
(* C3, C4, C5.  The storage provider.                                      *)
(***************************************************************************)
\* C3: on the file backend, for every key and JSON value v, load_raw_data
\* after save_raw_data returns v, get_bill_from_cache after
\* save_bill_to_cache returns v, and get_bill_text_from_cache after
\* save_bill_text_to_cache returns the text t that was saved, whatever was
\* done on other keys in between.
C3_AsStated ==
    /\ (last_op.op = "load_raw_data"
          /\ saved.raw[StripJson(last_op.key)] # NeverSaved
          /\ IsJsonValue(saved.raw[StripJson(last_op.key)])) =>
        (last_op.status = "ok" /\ last_op.ret = saved.raw[StripJson(last_op.key)])
    /\ (last_op.op = "get_bill_from_cache"
          /\ saved.bill[last_op.key] # NeverSaved
          /\ IsJsonValue(saved.bill[last_op.key])) =>
        (last_op.status = "ok" /\ last_op.ret = saved.bill[last_op.key])
    /\ (last_op.op = "get_bill_text_from_cache" /\ saved.text[last_op.key] # NeverText) =>
        (last_op.status = "ok" /\ last_op.ret = PyStr
           /\ last_op.text = saved.text[last_op.key])

\* C4: load_analysis_results after save_analysis_results(run_id, relevant,
\* not_relevant) returns the pair of result lists that was saved, whether a
\* bucket was given as a bare list or as an envelope, empty buckets included.
C4_AsStated ==
    (last_op.op = "load_analysis_results"
       /\ saved.analysis[AnalysisPrefix(last_op.key)] # NeverSaved) =>
        /\ last_op.status = "ok"
        /\ last_op.ret =
             PyTuple(<<ResultsOf(saved.analysis[AnalysisPrefix(last_op.key)].items[1]),
                       ResultsOf(saved.analysis[AnalysisPrefix(last_op.key)].items[2])>>)

\* C5: each of the three backends gives a provider that implements every
\* operation of the StorageProvider contract (and then answers the contract
\* operations as the local-file backend does).
C5_AsStated ==
    (last_op.op = "create" /\ last_op.key \in Backends) =>
        /\ provider.status = "ok"
        /\ ContractOps \subseteq Defines(provider.backend)

(***************************************************************************)
(* C6.  The hook cache.                                                    *)
(***************************************************************************)
\* C6: whatever hooks are registered and whatever calls were made before,
\* execute_hooks on a manager with a cache directory returns the value that
\* the same call returns on a manager without caching.
C6_AsStated ==
    last_exec.op = "execute_hooks" => last_exec.with_cache = last_exec.without_cache

(***************************************************************************)
(* C15, C16, C17.  The loop of execute_hooks.                              *)
(***************************************************************************)
\* a step that leaves the registrations alone is an execute_hooks call; the
\* trace of the call is in last_exec'
IsExecuteStep == hooks' = hooks
HookRaises(st) ==
    \/ KeyRaises(st.class)
    \/ st.kind # "cached" /\ Process(st.class, st.input).raised

\* C15: a registration puts the hook at the end of the list of its timing;
\* execute_hooks gives every hook registered for the timing, and no other, its
\* turn in that order, hands each the data the previous turn left, applies
\* process where the hook is executed, and returns what the last turn left;
\* with no hook of the timing it returns its argument.
C15_RegistrationOrder ==
    [][ /\ ~IsExecuteStep =>
             \E t \in HookTimings, c \in HookClasses :
                hooks' = [hooks EXCEPT ![t] = Append(@, c)]
        /\ IsExecuteStep =>
             LET e == last_exec'
                 hs == hooks[e.timing]
                 tr == e.trace
             IN /\ e.op = "execute_hooks"
                /\ Len(tr) = Len(hs)
                /\ \A i \in 1..Len(hs) : tr[i].class = hs[i]
                /\ tr = <<>> => e.with_cache = e.data
                /\ tr # <<>> =>
                     /\ tr[1].input = e.data
                     /\ \A i \in 1..(Len(tr) - 1) : tr[i + 1].input = tr[i].output
                     /\ e.with_cache = tr[Len(tr)].output
                /\ \A i \in 1..Len(tr) :
                     tr[i].kind = "process" =>
                        tr[i].output = Process(tr[i].class, tr[i].input).value
      ]_vars

\* a call ran TagHook and then TupleHook on {"x": 1}: the second received the
\* tagged dict and the call returned the tuple made of it
C15_Witness ==
    /\ last_exec.op = "execute_hooks"
    /\ Len(last_exec.trace) = 2
    /\ last_exec.trace[1].class = "TagHook" /\ last_exec.trace[1].kind = "process"
    /\ last_exec.trace[2].class = "TupleHook" /\ last_exec.trace[2].kind = "process"
    /\ last_exec.trace[2].input = PyDict(<<Item("x", Atom("int", "1")), TagItem>>)
    /\ last_exec.with_cache = PyTuple(<<last_exec.trace[2].input>>)

\* C16: when process or get_cache_key of a hook raises, execute_hooks goes on
\* with the remaining hooks of the timing, the data handed on is the data the
\* failing hook was given (the last value produced before it), the cache entry
\* of the hook is left as it was, and the call returns a value.
C16_FailureIsolation ==
    [][ IsExecuteStep =>
          LET e == last_exec'
              tr == e.trace
          IN /\ Len(tr) = Len(hooks[e.timing])
             /\ \A i \in 1..Len(tr) :
                  HookRaises(tr[i]) =>
                     /\ tr[i].kind = "failed"
                     /\ tr[i].output = tr[i].input
                     /\ tr[i].after = tr[i].before
                     /\ i < Len(tr) => tr[i + 1].input = tr[i].input
                     /\ i = Len(tr) => e.with_cache = tr[i].input
      ]_vars

\* a call whose first hook raised and whose second hook then tagged the data
\* the call was made with
C16_Witness ==
    /\ last_exec.op = "execute_hooks"
    /\ Len(last_exec.trace) = 2
    /\ last_exec.trace[1].class \in {"FailHook", "KeyFailHook"}
    /\ last_exec.trace[1].kind = "failed"
    /\ last_exec.trace[2].class = "TagHook" /\ last_exec.trace[2].kind = "process"
    /\ last_exec.trace[2].input = last_exec.data
    /\ last_exec.with_cache # last_exec.data

\* C17 as stated: a hook whose key has a cache entry is not executed and the
\* cached value is used; the output of an executed hook with a key is stored
\* under the key; without a key the cache is neither read nor written.
C17_AsStated ==
    [][ IsExecuteStep =>
          \A i \in 1..Len(last_exec'.trace) :
             LET st == last_exec'.trace[i]
             IN /\ st.before # "none" => st.kind = "cached"
                /\ (st.kind = "process" /\ st.key # NoKey) =>
                      hook_cache'[st.key] = JsonFile(st.output)
                /\ st.key = NoKey => st.kind # "cached" /\ hook_cache' = hook_cache
      ]_vars

\* C17: a hook whose key has an entry holding a JSON document is not executed
\* and the document is used as its result; a hook is executed when its key has
\* no entry or an empty one; the output of an executed hook with a key is
\* stored under the key when it is a string, a dict or a list, and otherwise
\* the entry is left empty; without a key (no item_id in the context) the
\* cache is neither read nor written.
C17_CacheShortCircuit ==
    [][ IsExecuteStep =>
          \A i \in 1..Len(last_exec'.trace) :
             LET st == last_exec'.trace[i]
             IN /\ st.key # NoKey =>
                     /\ st.before = "json" <=> st.kind = "cached"
                     /\ st.kind = "cached" =>
                          /\ st.output = JsonLoad(hook_cache'[st.key].doc)
                          /\ st.after = st.before
                     /\ st.kind = "process" =>
                          IF st.output.t \in {"str", "dict", "list"}
                          THEN hook_cache'[st.key] = JsonFile(st.output)
                          ELSE hook_cache'[st.key].kind = "empty"
                /\ last_exec'.item = NoItem =>
                     /\ st.key = NoKey
                     /\ st.kind # "cached"
                     /\ hook_cache' = hook_cache
      ]_vars

\* a call that served TagHook from the cache and executed TupleHook, whose
\* tuple left an empty entry
C17_Witness ==
    /\ last_exec.op = "execute_hooks"
    /\ \E i \in 1..Len(last_exec.trace) :
          /\ last_exec.trace[i].kind = "cached"
          /\ last_exec.trace[i].class = "TagHook"
    /\ \E i \in 1..Len(last_exec.trace) :
          /\ last_exec.trace[i].kind = "process"
          /\ last_exec.trace[i].class = "TupleHook"
          /\ last_exec.trace[i].before = "empty"
          /\ last_exec.trace[i].after = "empty"

(***************************************************************************)
(* C10 -- filter_batch validates the shape of the classifier response.     *)
(***************************************************************************)
HasResultsArray(resp) ==
    resp.type = "json" /\ resp.val.k = "dict" /\ resp.val.has /\ resp.val.res.k = "list"

\* C10: when the parsed response has no `results` key, or `results` is not an
\* array, filter_batch raises (a ValueError naming the invalid structure when
\* the response is a JSON object) and returns nothing; when `results` is an
\* array the parsed response is returned unchanged.
C10_FilterBatchValidates ==
    last_call.op = "filter_batch" =>
        /\ (last_call.resp.type = "json" /\ ~HasResultsArray(last_call.resp)) =>
              /\ last_call.out.raised
              /\ last_call.out.err \in {"ValueError", "TypeError"}
              /\ last_call.resp.val.k = "dict" => last_call.out.err = "ValueError"
              /\ last_call.out.value = NoJson
        /\ HasResultsArray(last_call.resp) =>
              /\ ~last_call.out.raised
              /\ last_call.out.value = last_call.resp.val

\* a JSON object whose `results` is a string was answered and refused
C10_Witness ==
    /\ last_call.op = "filter_batch"
    /\ last_call.resp.type = "json"
    /\ last_call.resp.val.k = "dict"
    /\ last_call.resp.val.has
    /\ last_call.resp.val.res.k = "str"
    /\ last_call.out.raised
    /\ last_call.out.err = "ValueError"

(***************************************************************************)
(* Filter results and analysis results of several runs in one directory.   *)
(***************************************************************************)
\* the candidate names of a run id in the documented order, and their files
NamesInOrder(r) == <<r, AddPrefix(r), AddExt(r), AddExt(AddPrefix(r))>>
FileOfName(n) == IF n.e > 0 THEN n ELSE [n EXCEPT !.e = 1]
Stored(i, r) == filtered_files[FileOfName(NamesInOrder(r)[i])] # NoFile

\* C19 as stated: once filter results have been saved for a run, loading
\* them under any variant of the run id (with or without the prefix, with or
\* without the extension) returns the saved document.
C19_AsStated ==
    (last_op.op = "load_filtered_results"
       /\ saved.filtered[SaveFilteredName(last_op.key)] # NeverSaved) =>
        /\ last_op.status = "ok"
        /\ last_op.ret = saved.filtered[SaveFilteredName(last_op.key)]

\* C19: load_filtered_results returns the document of the first candidate
\* that exists, in the order exact, prefixed, with extension, prefixed with
\* extension; it raises FileNotFoundError exactly when no candidate exists;
\* and it returns the document saved for the run under every variant of the
\* run id provided no other object exists under a candidate name that is
\* tried before the saved one.
C19_NameResolution ==
    last_op.op = "load_filtered_results" =>
        LET r == last_op.key
            target == SaveFilteredName(r)
            file(i) == FileOfName(NamesInOrder(r)[i])
        IN /\ (last_op.status = "FileNotFoundError") = (\A i \in 1..4 : ~Stored(i, r))
           /\ last_op.status \in {"ok", "FileNotFoundError"}
           /\ \A i \in 1..4 :
                 (Stored(i, r) /\ \A j \in 1..(i - 1) : ~Stored(j, r)) =>
                     /\ last_op.status = "ok"
                     /\ last_op.ret = JsonLoad(filtered_files[file(i)].doc)
           /\ (/\ saved.filtered[target] # NeverSaved
               /\ \A i \in 1..4 :
                     (file(i) # target /\ \A j \in 1..(i - 1) : file(j) # target) =>
                         ~Stored(i, r)) =>
                 /\ last_op.status = "ok"
                 /\ last_op.ret = saved.filtered[target]

\* results saved for a run are loaded under the bare run id while another
\* run's results are stored next to them
C19_Witness ==
    /\ last_op.op = "load_filtered_results"
    /\ last_op.key = [p |-> 0, stem |-> "x", e |-> 0]
    /\ filtered_files[LegacyFile] = NoFile
    /\ saved.filtered[[p |-> 1, stem |-> "x", e |-> 1]] = FilterDoc("2")
    /\ saved.filtered[[p |-> 1, stem |-> "y", e |-> 1]] = FilterDoc("1")
    /\ last_op.status = "ok"
    /\ last_op.ret = FilterDoc("2")

\* what load_analysis_results(run_id) returns in the current directory
LoadAnalysisReturn(run_id) ==
    LET relevant == LoadBucket(AnalysisPrefix(run_id), "relevant")
        not_relevant == LoadBucket(AnalysisPrefix(run_id), "not_relevant")
    IN IF ~PyTruthy(relevant) /\ ~PyTruthy(not_relevant)
       THEN Exc("FileNotFoundError")
       ELSE Val(PyTuple(<<relevant, not_relevant>>))
IsFilteredSave == last_op'.op = "save_filtered_results"
IsAnalysisSave == last_op'.op = "save_analysis_results"

ObjectOfRun(r) ==
    [p |-> IF r.p = 0 THEN 1 ELSE r.p, stem |-> r.stem, e |-> IF r.e = 0 THEN 1 ELSE r.e]
\* the objects load_filtered_results(r) looks at
CandidateObjects(r) == {FileOfName(NamesInOrder(r)[i]) : i \in 1..4}
\* the name the two objects of an analysis run start with: `analysis_` put in
\* front of the run id unless it is there, one trailing `.json` removed
ObjectsOfAnalysisRun(r) ==
    IF r \in {"r1", "r1.json", "analysis_r1"} THEN "analysis_r1"
    ELSE "analysis_r2"

C25_AsStated ==
    [][/\ last_call'.op = "filter_batch" => max_tokens' = max_tokens
       /\ last_call'.op = "filter_data" =>
             last_call'.out.max_tokens = DEFAULT_MAX_TOKENS]_vars

(***************************************************************************)
(* The delay between the LLM calls of the batch loop.                      *)
(***************************************************************************)
\* C26: in the filter loop the LLM calls of two consecutive batches are
\* separated by the inter-batch delay, whether the earlier batch succeeded
\* or was skipped after an exception.
C26_AsStated ==
    \A i \in 1..(Len(events) - 1) : ~(events[i] = "call" /\ events[i + 1] = "call")

(***************************************************************************)
(* Provider selection from the environment.                                *)
(***************************************************************************)
HasModelAndUrl(class) == class \in {"portkey", "ollama"}
\* C23: whenever LLM_PROVIDER, LLM_MODEL or LLM_BASE_URL is set,
\* create_from_env gives a provider that uses the environment value for that
\* setting, whatever the configuration says (provider names compared without
\* case, URLs without the trailing slash, model and base URL for the providers
\* that have them).
C23_AsStated ==
    llm_out.op = "create_from_env" =>
        /\ llm_out.env.provider \in {"portkey", "OLLAMA", "azure"} =>
              /\ llm_out.out.err = ""
              /\ llm_out.out.class = Lower(llm_out.env.provider)
        /\ (llm_out.env.model # NotSet /\ HasModelAndUrl(llm_out.out.class)) =>
              llm_out.out.model = llm_out.env.model
        /\ (llm_out.env.base_url # NotSet /\ HasModelAndUrl(llm_out.out.class)) =>
              llm_out.out.base_url = RstripSlash(llm_out.env.base_url)

(***************************************************************************)
(* The relational backend: transactions, the pool, the file fallback.      *)
(***************************************************************************)
DbRowSaves == {"save_raw_data", "save_filtered_results", "save_analysis_results"}
DbSaves == DbRowSaves \cup {"save_bill_to_cache"}
\* C29: when save_raw_data, save_filtered_results or save_analysis_results
\* raises inside its transaction, whatever statement raised and however many
\* ran before it, the tables are what they were before the call and nothing
\* is written through the file backend.
C29_AtomicWrites ==
    [][(db_last'.op \in DbRowSaves /\ db_last'.status = "DBError")
          => (db' = db /\ db_last'.file = "none" /\ ~db_last'.committed)]_vars
\* a save of filter results in dual-write mode that raised after the SELECT
\* and the upsert of a known bill had run: the row is not in filter_results
C29_Witness ==
    /\ db_cfg
    /\ db_last.op = "save_filtered_results"
    /\ db_last.status = "DBError"
    /\ db_last.executed >= 2
    /\ BillKnown(db, "SB001")
    /\ db.filter[<<"SB001", db_last.key>>] = DbAbsent
    /\ db.runs[db_last.key] = NoRun

\* C27: between operations no connection is outstanding, and during an
\* operation at most one is, whether the operation returned or raised.
C27_PoolSafety ==
    /\ db_borrowed = 0
    /\ \A i \in 1..Len(db_last.trace) : Outstanding(SubSeq(db_last.trace, 1, i)) \in {0, 1}
\* load_filtered_results whose second query raised: two connections were
\* borrowed one after the other and both are back
C27_Witness ==
    /\ db_last.op = "load_filtered_results"
    /\ db_last.status = "DBError"
    /\ db_last.trace = <<"get", "put", "get", "put">>
    /\ db_borrowed = 0

\* the statements of a save, from its arguments
StatementsOfSave(d, op, key, arg) ==
    IF op = "save_raw_data" THEN RawStatements(arg)
    ELSE IF op = "save_filtered_results" THEN FilterStatements(d, key, arg)
    ELSE IF op = "save_analysis_results"
    THEN AnalysisStatements(d, key, arg.relevant, arg.not_relevant)
    ELSE <<Stmt("cache", key, arg)>>
\* C22: with the file fallback on, every save that commits is then made
\* through the file backend as well, and when that file write raises the
\* tables hold the committed write.
C22_DualWrite ==
    [][(db_cfg /\ db_last'.op \in DbSaves /\ db_last'.committed)
          => /\ db_last'.file \in {"ok", "raised"}
             /\ db' = ApplyAll(db, StatementsOfSave(db, db_last'.op, db_last'.key, db_last'.arg))
             /\ db_last'.file = "raised" => db_last'.status = "OSError"]_vars
\* a cache save whose file write raised: the payload is in legiscan_cache
C22_Witness ==
    /\ db_cfg
    /\ db_last.op = "save_bill_to_cache"
    /\ db_last.committed
    /\ db_last.file = "raised"
    /\ db.cache[db_last.key] = db_last.arg

\* the rows of pipeline_runs
RunRows(d) ==
    {[run_id |-> r, stage |-> d.runs[r].stage, processed |-> d.runs[r].processed,
      relevant |-> d.runs[r].relevant] : r \in {x \in DbRuns : d.runs[x] # NoRun}}
HasRunRow(d, r, stage) == \E row \in RunRows(d) : row.run_id = r /\ row.stage = stage
\* C28: once save_filtered_results and save_analysis_results have both
\* committed for a run id, in either order, pipeline_runs holds a row for
\* (r, 'filter') and a row for (r, 'analysis'), and the analysis row counts
\* the results of both buckets and the relevant results, for bare lists and
\* envelopes alike.
C28_AsStated ==
    [][\A r \in DbRuns :
         /\ (/\ db_last'.op = "save_analysis_results"
             /\ db_last'.committed
             /\ db_last'.key = r
             /\ HasRunRow(db, r, "filter"))
              => /\ HasRunRow(db', r, "filter")
                 /\ \E row \in RunRows(db') :
                      /\ row.run_id = r
                      /\ row.stage = "analysis"
                      /\ row.processed = Len(db_last'.arg.relevant.rows)
                                           + Len(db_last'.arg.not_relevant.rows)
                      /\ row.relevant = Len(db_last'.arg.relevant.rows)
         /\ (/\ db_last'.op = "save_filtered_results"
             /\ db_last'.committed
             /\ db_last'.key = r
             /\ HasRunRow(db, r, "analysis"))
              => (HasRunRow(db', r, "filter") /\ HasRunRow(db', r, "analysis"))]_vars

\* the bill numbers of a list of rows that the bills table knows: the rows a
\* save can store
RECURSIVE KnownNumbers(_, _)
KnownNumbers(d, numbers) ==
    IF numbers = <<>> THEN {}
    ELSE (IF BillKnown(d, Head(numbers)) THEN {Head(numbers)} ELSE {})
           \cup KnownNumbers(d, Tail(numbers))
NumbersOf(rows) == [i \in 1..Len(rows) |-> rows[i].bill_number]
SeqSet(q) == {q[i] : i \in 1..Len(q)}
\* C21: a save replaces what was saved under the same key: after a committed
\* save the load of that key returns the saved payload and nothing of an
\* earlier one (the rows of filter results, the two buckets of analysis
\* results, the payload of a cached bill).
C21_AsStated ==
    /\ (db_last.op = "save_filtered_results" /\ db_last.committed)
          => {row.bill_number : row \in SeqSet(FilterRows(db, db_last.key))}
               = KnownNumbers(db, NumbersOf(db_last.arg.relevant_bills))
    /\ (db_last.op = "save_analysis_results" /\ db_last.committed
          /\ SeqSet(db_last.arg.relevant.rows) \cap SeqSet(db_last.arg.not_relevant.rows) = {})
          => LET out == DbLoadAnalysis(db, db_last.key)
                 relevant == IF out.err = "" THEN SeqSet(out.v.relevant) ELSE {}
                 not_relevant == IF out.err = "" THEN SeqSet(out.v.not_relevant) ELSE {}
             IN /\ relevant = KnownNumbers(db, db_last.arg.relevant.rows)
                /\ not_relevant = KnownNumbers(db, db_last.arg.not_relevant.rows)
    /\ (db_last.op = "save_bill_to_cache" /\ db_last.committed)
          => DbGetCache(db, db_last.key) = Val(db_last.arg)

(***************************************************************************)
(* The two lookups of a bill in raw data, side by side.                    *)
(***************************************************************************)
\* a masterlist summary, a `bills` list, a bare list, a dict of bills, an
\* empty dict
LookupShapes ==
    {PyDict(<<Item("summary", PyDict(<<Item("masterlist", PyList(<<RawBill("SB001")>>))>>))>>),
     PyDict(<<Item("summary", PyDict(<<Item("count", Atom("int", "1"))>>)),
              Item("bills", PyList(<<RawBill("SB001")>>))>>),
     PyList(<<RawBill("SB001")>>),
     PyDict(<<Item("k1", RawBill("SB001"))>>),
     PyDict(<<>>)}
\* C30: on raw data of one of these shapes, and on a name that has no raw
\* data, bill_exists_in_raw(n, name) and get_bill_by_number(n, name) both
\* return, and the first is true exactly when the second is a bill.
C30_AsStated ==
    (/\ last_op.op \in {"bill_exists_in_raw", "get_bill_by_number"}
     /\ raw_files[LookupStem(last_op.key)] \in {JsonFile(v) : v \in LookupShapes} \cup {NoFile})
      => LET file == raw_files[LookupStem(last_op.key)]
             exists == BillExistsInRaw(file, last_op.text[1])
             bill == GetBillByNumber(file, last_op.text[1])
         IN /\ last_op.status = "ok"
            /\ exists.err = ""
            /\ bill.err = ""
            /\ (exists.v = Atom("bool", "True")) <=> (bill.v # PyNone)

(***************************************************************************)
(* The end of a run.                                                       *)
(***************************************************************************)
\* C24: every run of the analysis pass that has selected its bills, whatever
\* their number (none included) and whatever fails on the way, eventually
\* logs its summary: totals, relevant and not relevant counts, errors.
C24_AsStated == <>(apc = "done")

====
